---- MODULE Spec2Model ----
(***************************************************************************)
(* A model of the not-another-microblog client library (src/lib/api.ts),   *)
(* its pages, and the relational store declared by the migration           *)
(* (src/supabase/migrations/20251007193858_create_micro_twitter_schema.sql)*)
(*                                                                         *)
(* Every store request is one atomic step that is taken at the moment the  *)
(* database executes the statement; the client code that runs between two  *)
(* awaits touches only the caller's own locals and is folded into the step *)
(* of the request it follows.  A request may fail in transport, which is   *)
(* the `fault` input of the actions.                                       *)
(***************************************************************************)
EXTENDS Integers, Sequences, FiniteSets, Bags, TLC

VARIABLES
    now,            \* the clock behind now() / new Date()
    nextPostId,     \* the next value uuid_generate_v4() hands to posts.id
    posts,          \* table posts: a set of rows
    follows,        \* table follows: a bag of <<follower_id, following_id>>
    likes,          \* table likes: a bag of <<user_id, post_id>>
    hashtags,       \* table hashtags: a set of rows [id, tag]
    post_hashtags,  \* table post_hashtags: a bag of <<post_id, hashtag_id>>
    mentions,       \* table mentions: a bag of <<post_id, user_id>>
    link_previews,  \* table link_previews: a set of rows [id, url]
    post_links,     \* table post_links: a bag of <<post_id, link_preview_id>>
    calls,          \* the createPost invocations, by call id
    feed,           \* the feed read in flight, or the page the last one returned
    ret,            \* the one-request call that settled last: what it threw, if anything
    postComp,       \* a mounted Post component: its props, state and pending handler
    profilePage,    \* the ProfilePage component: follow state and pending handler
    homePage,       \* the HomePage component: list state and pending fetch
    annotator,      \* a text and what the extraction functions returned for it
    form            \* the CreatePost component: its draft and pending handleSubmit

store == <<posts, follows, likes, hashtags, post_hashtags, mentions,
           link_previews, post_links>>
ui == <<postComp, profilePage, homePage>>
vars == <<now, nextPostId, posts, follows, likes, hashtags, post_hashtags,
          mentions, link_previews, post_links, calls, feed, ret, postComp,
          profilePage, homePage, annotator, form>>

(***************************************************************************)
(* Bounds of the model.                                                    *)
(***************************************************************************)
MaxPosts == 2      \* post rows ever inserted in one behaviour
MaxTime  == 2      \* the clock runs 1..MaxTime
MaxLimit == 2      \* the limit argument of the feed reads is 1..MaxLimit
NumCalls == 2      \* createPost invocations that may be in flight together

(***************************************************************************)
(* Profiles: the rows of table profiles (created at signup by the seed     *)
(* script; no operation of the library inserts or deletes one).            *)
(***************************************************************************)
Users == {"alice", "bob", "carol"}

is_admin(u) == u = "alice"

Handle(u) ==
    CASE u = "alice" -> <<"a", "l", "_", "d">>
      [] u = "bob"   -> <<"b", "o", "b">>
      [] OTHER       -> <<"C", "a", "r", "o", "l">>

Times == 1..MaxTime
PostIds == 1..MaxPosts
CallIds == 1..NumCalls

\* `undefined` / null in the client code
Null == "null"

\* a variable that holds a row before the row is there (undefined, null)
NoRow == [id |-> 0]

(***************************************************************************)
(* Errors a store request resolves with.                                   *)
(***************************************************************************)
NoError            == "none"
UniqueViolation    == "23505"   \* duplicate key value violates unique constraint
CheckViolation     == "23514"   \* new row violates check constraint
ForeignKeyViolation == "23503"
RlsViolation       == "42501"   \* new row violates row-level security policy
TransportError     == "fetch failed"

(***************************************************************************)
(* Text.  A string is a sequence of one-character strings.                 *)
(***************************************************************************)
LowerLetters == <<"a","b","c","d","e","f","g","h","i","j","k","l","m",
                  "n","o","p","q","r","s","t","u","v","w","x","y","z">>
UpperLetters == <<"A","B","C","D","E","F","G","H","I","J","K","L","M",
                  "N","O","P","Q","R","S","T","U","V","W","X","Y","Z">>
Digits == {"0","1","2","3","4","5","6","7","8","9"}
Whitespace == {" ", "\n", "\t"}

Range(s) == {s[i] : i \in DOMAIN s}

\* \w of a JavaScript regular expression without the u flag
IsWordChar(ch) ==
    ch \in Range(LowerLetters) \cup Range(UpperLetters) \cup Digits \cup {"_"}

\* String.prototype.toLowerCase on one character
LowerChar(ch) ==
    IF \E i \in DOMAIN UpperLetters : UpperLetters[i] = ch
    THEN LowerLetters[CHOOSE i \in DOMAIN UpperLetters : UpperLetters[i] = ch]
    ELSE ch

\* a mutant: the matches are not lowercased
toLowerCaseNone(s) == s

toLowerCase(s) == [i \in DOMAIN s |-> LowerChar(s[i])]

\* Array.from(new Set(xs)): the distinct elements in order of first occurrence
RECURSIVE Distinct(_)
Distinct(xs) ==
    IF xs = <<>> THEN <<>>
    ELSE LET init == Distinct(SubSeq(xs, 1, Len(xs) - 1))
             last == xs[Len(xs)]
         IN IF last \in Range(init) THEN init ELSE Append(init, last)

\* the index one past the maximal run of characters satisfying \w from i
RECURSIVE WordRunEnd(_, _)
WordRunEnd(s, i) ==
    IF i <= Len(s) /\ IsWordChar(s[i]) THEN WordRunEnd(s, i + 1) ELSE i

\* the index one past the maximal run of non-whitespace characters from i
RECURSIVE NonSpaceRunEnd(_, _)
NonSpaceRunEnd(s, i) ==
    IF i <= Len(s) /\ s[i] \notin Whitespace THEN NonSpaceRunEnd(s, i + 1) ELSE i

\* content.match(/<sigil>(\w+)/g) scanning from index i: the matches, sigil included
RECURSIVE MatchSigilWord(_, _, _)
MatchSigilWord(s, i, sigil) ==
    IF i > Len(s) THEN <<>>
    ELSE IF s[i] = sigil /\ WordRunEnd(s, i + 1) > i + 1
         THEN <<SubSeq(s, i, WordRunEnd(s, i + 1) - 1)>>
              \o MatchSigilWord(s, WordRunEnd(s, i + 1), sigil)
         ELSE MatchSigilWord(s, i + 1, sigil)

StartsWithAt(s, i, prefix) ==
    /\ i + Len(prefix) - 1 <= Len(s)
    /\ SubSeq(s, i, i + Len(prefix) - 1) = prefix

HttpScheme  == <<"h","t","t","p",":","/","/">>
HttpsScheme == <<"h","t","t","p","s",":","/","/">>

\* the length of the scheme /https?:\/\// matches at i, 0 when it does not match
SchemeLenAt(s, i) ==
    IF StartsWithAt(s, i, HttpsScheme) THEN Len(HttpsScheme)
    ELSE IF StartsWithAt(s, i, HttpScheme) THEN Len(HttpScheme)
    ELSE 0

\* content.match(/(https?:\/\/[^\s]+)/g) scanning from index i
RECURSIVE MatchUrls(_, _)
MatchUrls(s, i) ==
    IF i > Len(s) THEN <<>>
    ELSE LET n == SchemeLenAt(s, i)
             e == NonSpaceRunEnd(s, i + n)
         IN IF n > 0 /\ e > i + n
            THEN <<SubSeq(s, i, e - 1)>> \o MatchUrls(s, e)
            ELSE MatchUrls(s, i + 1)

parseHashtags(content) ==
    LET matches == MatchSigilWord(content, 1, "#")
    IN [k \in DOMAIN matches |-> toLowerCase(Tail(matches[k]))]

parseMentions(content) ==
    LET matches == MatchSigilWord(content, 1, "@")
    IN [k \in DOMAIN matches |-> toLowerCase(Tail(matches[k]))]

parseUrls(content) == MatchUrls(content, 1)

\* the CreatePost component before it has a profile
NoForm ==
    [profile |-> Null, content |-> <<>>, imageFile |-> FALSE, loading |-> FALSE,
     pc |-> "idle", handleSubmit |-> [content |-> <<>>, imageFile |-> FALSE],
     call |-> 0, notified |-> FALSE]

\* no text given to the extraction functions yet
NoAnnotator == [content |-> <<>>, parseHashtags |-> <<>>, parseMentions |-> <<>>,
                parseUrls |-> <<>>, tags |-> <<>>, handles |-> <<>>, urls |-> <<>>]


(***************************************************************************)
(* The store: constraints and row-level security policies of the migration.*)
(* auth.uid() is the `actor` input of an action.                           *)
(***************************************************************************)
MaxContentLength == 280

\* a delete or update that matches `victims`: the rows of a bag that remain
BagWithout(bag, victims) == [r \in DOMAIN bag \ victims |-> bag[r]]

BagInsert(bag, row) == bag (+) SetToBag({row})

\* a mutant: a plain insert into a table without the key on the pair
InsertDuplicate(bag, row) == BagInsert(bag, row)

\* INSERT ... ON CONFLICT (pair) DO NOTHING, one row
UpsertIgnoreDuplicate(bag, row) == IF BagIn(row, bag) THEN bag ELSE BagInsert(bag, row)

\* upsert(rows, { onConflict: <the pair>, ignoreDuplicates: true })
RECURSIVE UpsertIgnoreDuplicates(_, _)
UpsertIgnoreDuplicates(bag, rows) ==
    IF rows = <<>> THEN bag
    ELSE UpsertIgnoreDuplicates(UpsertIgnoreDuplicate(bag, Head(rows)), Tail(rows))

PostRow(id) == CHOOSE r \in posts : r.id = id
PostExists(id) == \E r \in posts : r.id = id

\* posts: INSERT policy, check constraint content_length; the new row
PostsInsertError(actor, userId, content, fault) ==
    IF fault THEN TransportError
    ELSE IF actor # userId THEN RlsViolation
    ELSE IF ~(Len(content) > 0 /\ Len(content) <= MaxContentLength) THEN CheckViolation
    ELSE NoError

NewPost(userId, content) ==
    [id |-> nextPostId, user_id |-> userId, content |-> content,
     is_deleted |-> FALSE, deleted_by |-> Null, deleted_at |-> Null,
     created_at |-> now]

\* posts: the SELECT policy, USING (is_deleted = false)
PostsSelectPolicy(row) == row.is_deleted = FALSE

\* posts: the two UPDATE policies (permissive, so either admits the row); each
\* has the same expression as USING and as WITH CHECK
PostsUpdatePolicy(actor, row) == actor = row.user_id \/ is_admin(actor)

\* The rows an authenticated UPDATE ... WHERE id = postId touches: the statement
\* reads the column id, so the SELECT policy filters the existing rows together
\* with the UPDATE policies' USING.
PostsUpdateTargets(actor, postId) ==
    {r \in posts : r.id = postId /\ PostsSelectPolicy(r) /\ PostsUpdatePolicy(actor, r)}

\* The check on the row an UPDATE writes: the UPDATE policies' WITH CHECK and,
\* because the statement reads a column, the SELECT policy's USING applied to
\* the new row; a new row that fails it aborts the statement with 42501.
PostsUpdateCheck(actor, newRow) ==
    PostsUpdatePolicy(actor, newRow) /\ PostsSelectPolicy(newRow)

\* a mutant: the DELETE policy USING (true)
PostsDeletePolicyAny(actor, row) == TRUE

\* posts: the DELETE policy
PostsDeletePolicy(actor, row) == actor = row.user_id

\* The rows an authenticated DELETE ... WHERE id = postId removes
PostsDeleteTargets(actor, postId) ==
    {r \in posts : r.id = postId /\ PostsSelectPolicy(r) /\ PostsDeletePolicy(actor, r)}

\* a mutant: table follows without CONSTRAINT no_self_follow
FollowsInsertErrorNoCheck(actor, followerId, followingId, fault) ==
    IF fault THEN TransportError
    ELSE IF actor # followerId THEN RlsViolation
    ELSE IF BagIn(<<followerId, followingId>>, follows) THEN UniqueViolation
    ELSE NoError

\* a mutant: table follows without CONSTRAINT unique_follow
FollowsInsertErrorNoUnique(actor, followerId, followingId, fault) ==
    IF fault THEN TransportError
    ELSE IF actor # followerId THEN RlsViolation
    ELSE IF ~(followerId # followingId) THEN CheckViolation
    ELSE NoError

\* follows: INSERT policy, no_self_follow, unique_follow
FollowsInsertError(actor, followerId, followingId, fault) ==
    IF fault THEN TransportError
    ELSE IF actor # followerId THEN RlsViolation
    ELSE IF ~(followerId # followingId) THEN CheckViolation
    ELSE IF BagIn(<<followerId, followingId>>, follows) THEN UniqueViolation
    ELSE NoError

\* a mutant: the delete without .eq('following_id', followingId)
FollowsDeleteAnyFollowee(bag, actor, followerId, followingId) ==
    BagWithout(bag, {r \in DOMAIN bag : r[1] = followerId /\ actor = r[1]})

\* follows: .delete().eq('follower_id', a).eq('following_id', b) under the DELETE
\* policy; the rows left
FollowsDelete(bag, actor, followerId, followingId) ==
    BagWithout(bag, {r \in DOMAIN bag :
                        r[1] = followerId /\ r[2] = followingId /\ actor = r[1]})

\* likes: INSERT policy, foreign key to posts, unique_like
LikesInsertError(actor, userId, postId, fault) ==
    IF fault THEN TransportError
    ELSE IF actor # userId THEN RlsViolation
    ELSE IF ~PostExists(postId) THEN ForeignKeyViolation
    ELSE IF BagIn(<<userId, postId>>, likes) THEN UniqueViolation
    ELSE NoError

\* a mutant: the foreign keys without ON DELETE CASCADE take no row along
CascadeNone(bag, gone) == bag

\* ON DELETE CASCADE from posts(id)
CascadePostDelete(bag, gone) == BagWithout(bag, {r \in DOMAIN bag : r[1] \in gone})
CascadeLikeDelete(bag, gone) == BagWithout(bag, {r \in DOMAIN bag : r[2] \in gone})

(***************************************************************************)
(* Feed queries.                                                           *)
(***************************************************************************)
\* `if (cursor)`: undefined and the empty string add no filter
NoCursor == 0
Cursors == {NoCursor} \cup Times
Limits == 1..MaxLimit

\* the literal 20 of HomePage.fetchPosts and ProfilePage.fetchPosts, scaled down
PageLimit == 2

\* a mutant: the query without .eq('is_deleted', false)
FeedRowMatchesDeleted(row, authorIds, cursor) ==
    /\ row.user_id \in authorIds
    /\ (cursor # NoCursor => row.created_at < cursor)

\* a mutant: .lte in place of .lt
FeedRowMatchesLte(row, authorIds, cursor) ==
    /\ row.user_id \in authorIds
    /\ row.is_deleted = FALSE
    /\ (cursor # NoCursor => row.created_at <= cursor)

\* .in('user_id', ids).eq('is_deleted', false) [.lt('created_at', cursor)]
FeedRowMatches(row, authorIds, cursor) ==
    /\ row.user_id \in authorIds
    /\ row.is_deleted = FALSE
    /\ (cursor # NoCursor => row.created_at < cursor)

Newest(rows) == {r \in rows : \A q \in rows : q.created_at <= r.created_at}

\* .order('created_at', { ascending: false }): every order the sort may produce;
\* rows with equal created_at come in an order the store does not fix
RECURSIVE OrderByCreatedAtDesc(_)
OrderByCreatedAtDesc(rows) ==
    IF rows = {} THEN {<<>>}
    ELSE UNION {{<<r>> \o rest : rest \in OrderByCreatedAtDesc(rows \ {r})}
                   : r \in Newest(rows)}

\* .limit(n)
Limit(rowSeq, n) == SubSeq(rowSeq, 1, IF Len(rowSeq) < n THEN Len(rowSeq) ELSE n)

\* the results the posts query of a feed read may resolve with
FeedQuery(authorIds, cursor, limit) ==
    {Limit(s, limit) :
        s \in OrderByCreatedAtDesc({r \in posts : FeedRowMatches(r, authorIds, cursor)})}

\* a mutant: getHomeFeed without followingIds.push(userId)
FollowingIdsNoPush(userId, fault) ==
    IF fault THEN {} ELSE {f[2] : f \in {g \in BagToSet(follows) : g[1] = userId}}

\* followingIds of getHomeFeed: the follows read, then push(userId)
FollowingIds(userId, fault) ==
    (IF fault THEN {} ELSE {f[2] : f \in {g \in BagToSet(follows) : g[1] = userId}})
        \cup {userId}

\* the posts query of HomePage.fetchPosts and of ProfilePage.fetchPosts
HomePageQuery(followingIds, cursor) == FeedQuery(followingIds, cursor, PageLimit)
ProfilePageQuery(userId, cursor) == FeedQuery({userId}, cursor, PageLimit)


(***************************************************************************)
(* createPost and the three enrichment sub-operations it awaits with       *)
(* Promise.allSettled.  A call record holds the locals of one invocation.  *)
(*   lh: linkHashtags, with one getOrCreateHashtag (goc) per distinct tag, *)
(*   im: insertMentions,  lu: linkUrls.                                    *)
(***************************************************************************)
Settled == {"resolved", "rejected"}

IdleCall ==
    [pc |-> "idle", actor |-> Null, post |-> NoRow, error |-> NoError,
     lh |-> [pc |-> "idle", tags |-> <<>>, goc |-> <<>>],
     im |-> [pc |-> "idle", handles |-> <<>>, profiles |-> {}],
     lu |-> [pc |-> "idle", urls |-> <<>>, i |-> 1, previewIds |-> <<>>]]

\* posts policies on post_hashtags, mentions and post_links: the post is one the
\* actor can read (SELECT policy of posts) and is its author
PostAuthoredBy(actor, postId) ==
    \E r \in posts : r.id = postId /\ r.user_id = actor /\ r.is_deleted = FALSE

\* INSERT into a table whose policy is "post authors can ..."
PostChildInsertError(actor, postId, fault) ==
    IF fault THEN TransportError
    ELSE IF ~PostAuthoredBy(actor, postId) THEN RlsViolation
    ELSE NoError

\* a mutant: the column without UNIQUE
UniqueKeyInsertErrorNone(keys, key, fault) ==
    IF fault THEN TransportError ELSE NoError

\* hashtags: unique(tag); link_previews: unique(url)
UniqueKeyInsertError(keys, key, fault) ==
    IF fault THEN TransportError
    ELSE IF key \in keys THEN UniqueViolation
    ELSE NoError

HashtagByTag(tag) == CHOOSE h \in hashtags : h.tag = tag
PreviewByUrl(url) == CHOOSE l \in link_previews : l.url = url

\* a mutant: Promise.all in place of Promise.allSettled, a rejection is thrown
AllSettledOrThrown(call) ==
    IF call.pc = "enriching" /\ "rejected" \in {call.lh.pc, call.im.pc, call.lu.pc}
    THEN [call EXCEPT !.pc = "thrown", !.error = TransportError]
    ELSE IF call.pc = "enriching" /\ call.lh.pc \in Settled /\ call.im.pc \in Settled
            /\ call.lu.pc \in Settled
    THEN [call EXCEPT !.pc = "returned"]
    ELSE call

\* a mutant: a rejected sub-operation aborts the two others
AllSettledAbort(call) ==
    IF call.pc = "enriching" /\ "rejected" \in {call.lh.pc, call.im.pc, call.lu.pc}
    THEN [call EXCEPT !.pc = "returned", !.lh.pc = "rejected", !.im.pc = "rejected",
                      !.lu.pc = "rejected"]
    ELSE IF call.pc = "enriching" /\ call.lh.pc \in Settled /\ call.im.pc \in Settled
            /\ call.lu.pc \in Settled
    THEN [call EXCEPT !.pc = "returned"]
    ELSE call

\* await Promise.allSettled([...]) resumes once the three promises are settled
AllSettled(call) ==
    IF call.pc = "enriching" /\ call.lh.pc \in Settled /\ call.im.pc \in Settled
       /\ call.lu.pc \in Settled
    THEN [call EXCEPT !.pc = "returned"]
    ELSE call

\* linkHashtags up to its first await
linkHashtagsStart(content) ==
    LET tags == Distinct(parseHashtags(content))
    IN IF Len(tags) = 0
       THEN [pc |-> "resolved", tags |-> tags, goc |-> <<>>]
       ELSE [pc |-> "gather", tags |-> tags,
             goc |-> [k \in DOMAIN tags |-> [pc |-> "select", row |-> NoRow]]]

\* insertMentions up to its first await
insertMentionsStart(content) ==
    LET handles == Distinct(parseMentions(content))
    IN [pc |-> IF Len(handles) = 0 THEN "resolved" ELSE "select",
        handles |-> handles, profiles |-> {}]

\* linkUrls up to its first await
linkUrlsStart(content) ==
    LET urls == Distinct(parseUrls(content))
    IN [pc |-> IF Len(urls) = 0 THEN "resolved" ELSE "select",
        urls |-> urls, i |-> 1, previewIds |-> <<>>]

\* createPost: the posts insert and what follows it up to the next await.
\* A call id names a new invocation once the one before has nothing outstanding.
createPost_call(c, actor, userId, content, fault) ==
    /\ calls[c].pc \in {"idle", "returned", "thrown"}
    /\ \A k \in DOMAIN calls[c].lh.goc : calls[c].lh.goc[k].pc \in {"done", "thrown"}
    /\ nextPostId <= MaxPosts
    /\ LET error == PostsInsertError(actor, userId, content, fault)
           post == NewPost(userId, content)
       IN IF error # NoError
          THEN /\ calls' = [calls EXCEPT ![c] =
                              [IdleCall EXCEPT !.pc = "thrown", !.error = error]]
               /\ UNCHANGED <<posts, nextPostId>>
          ELSE /\ posts' = posts \cup {post}
               /\ nextPostId' = nextPostId + 1
               /\ calls' = [calls EXCEPT ![c] = AllSettled(
                              [pc |-> "enriching", actor |-> actor,
                               post |-> post, error |-> NoError,
                               lh |-> linkHashtagsStart(content),
                               im |-> insertMentionsStart(content),
                               lu |-> linkUrlsStart(content)])]
    /\ UNCHANGED <<annotator, ui, now, follows, likes, hashtags, post_hashtags, mentions,
                   link_previews, post_links, feed, ret>>

\* createPost called from anywhere but the CreatePost component
createPost(c, actor, userId, content, fault) ==
    /\ createPost_call(c, actor, userId, content, fault)
    /\ UNCHANGED form

\* a mutant: linkHashtags goes on to the upsert once every promise has settled
PromiseAllSettledTags(lh) ==
    IF lh.pc # "gather" THEN lh
    ELSE IF \A k \in DOMAIN lh.goc : lh.goc[k].pc \in {"done", "thrown"}
         THEN [lh EXCEPT !.pc = "upsert"]
    ELSE lh

\* Promise.all over the getOrCreateHashtag promises, after one of them settled
PromiseAllTags(lh) ==
    IF lh.pc # "gather" THEN lh
    ELSE IF \E k \in DOMAIN lh.goc : lh.goc[k].pc = "thrown" THEN [lh EXCEPT !.pc = "rejected"]
    ELSE IF \A k \in DOMAIN lh.goc : lh.goc[k].pc = "done" THEN [lh EXCEPT !.pc = "upsert"]
    ELSE lh

\* getOrCreateHashtag: the lookup; its error is not read, so a failed lookup
\* is an absent row
getOrCreateHashtag_select(c, k, fault) ==
    /\ k \in DOMAIN calls[c].lh.goc
    /\ calls[c].lh.goc[k].pc = "select"
    /\ LET normalizedTag == toLowerCase(calls[c].lh.tags[k])
           found == ~fault /\ \E h \in hashtags : h.tag = normalizedTag
           goc == IF found THEN [pc |-> "done", row |-> HashtagByTag(normalizedTag)]
                  ELSE [pc |-> "insert", row |-> NoRow]
       IN calls' = [calls EXCEPT ![c] = AllSettled(
                      [@ EXCEPT !.lh = PromiseAllTags([@ EXCEPT !.goc[k] = goc])])]
    /\ UNCHANGED <<annotator, form, ui, now, nextPostId, store, feed, ret>>

\* getOrCreateHashtag: the insert, `if (error) throw error`
getOrCreateHashtag_insert(c, k, fault) ==
    /\ k \in DOMAIN calls[c].lh.goc
    /\ calls[c].lh.goc[k].pc = "insert"
    /\ LET normalizedTag == toLowerCase(calls[c].lh.tags[k])
           error == UniqueKeyInsertError({h.tag : h \in hashtags}, normalizedTag, fault)
           row == [id |-> Cardinality(hashtags) + 1, tag |-> normalizedTag]
           goc == IF error # NoError THEN [pc |-> "thrown", row |-> NoRow]
                  ELSE [pc |-> "done", row |-> row]
       IN /\ hashtags' = IF error # NoError THEN hashtags ELSE hashtags \cup {row}
          /\ calls' = [calls EXCEPT ![c] = AllSettled(
                         [@ EXCEPT !.lh = PromiseAllTags([@ EXCEPT !.goc[k] = goc])])]
    /\ UNCHANGED <<annotator, form, ui, now, nextPostId, posts, follows, likes, post_hashtags, mentions,
                   link_previews, post_links, feed, ret>>

\* linkHashtags: the post_hashtags upsert; its error is logged
linkHashtags_upsert(c, fault) ==
    /\ calls[c].lh.pc = "upsert"
    /\ LET call == calls[c]
           rows == [k \in DOMAIN call.lh.goc |-> <<call.post.id, call.lh.goc[k].row.id>>]
           error == PostChildInsertError(call.actor, call.post.id, fault)
       IN /\ post_hashtags' = IF error # NoError THEN post_hashtags
                              ELSE UpsertIgnoreDuplicates(post_hashtags, rows)
          /\ calls' = [calls EXCEPT ![c] = AllSettled([@ EXCEPT !.lh.pc = "resolved"])]
    /\ UNCHANGED <<annotator, form, ui, now, nextPostId, posts, follows, likes, hashtags, mentions,
                   link_previews, post_links, feed, ret>>

\* insertMentions: the profiles lookup .in('handle', handles)
insertMentions_select(c, fault) ==
    /\ calls[c].im.pc = "select"
    /\ LET profiles == {u \in Users : Handle(u) \in Range(calls[c].im.handles)}
       IN calls' = [calls EXCEPT ![c] = AllSettled(
                      IF fault \/ profiles = {}
                      THEN [@ EXCEPT !.im.pc = "resolved"]
                      ELSE [@ EXCEPT !.im.pc = "insert", !.im.profiles = profiles])]
    /\ UNCHANGED <<annotator, form, ui, now, nextPostId, store, feed, ret>>

\* a mutant: the mentions insert stores nothing
BagInsertNone(bag, rows) == bag

RECURSIVE BagInsertAll(_, _)
BagInsertAll(bag, rows) ==
    IF rows = {} THEN bag
    ELSE LET r == CHOOSE x \in rows : TRUE
         IN BagInsertAll(BagInsert(bag, r), rows \ {r})

\* insertMentions: the mentions insert; its error is logged
insertMentions_insert(c, fault) ==
    /\ calls[c].im.pc = "insert"
    /\ LET call == calls[c]
           rows == {<<call.post.id, u>> : u \in call.im.profiles}
           error == PostChildInsertError(call.actor, call.post.id, fault)
       IN /\ mentions' = IF error # NoError THEN mentions ELSE BagInsertAll(mentions, rows)
          /\ calls' = [calls EXCEPT ![c] = AllSettled([@ EXCEPT !.im.pc = "resolved"])]
    /\ UNCHANGED <<annotator, form, ui, now, nextPostId, posts, follows, likes, hashtags, post_hashtags,
                   link_previews, post_links, feed, ret>>

\* linkUrls: the end of one turn of `for (const url of urls)`
NextUrl(lu, previewIds) ==
    IF lu.i < Len(lu.urls)
    THEN [lu EXCEPT !.pc = "select", !.i = lu.i + 1, !.previewIds = previewIds]
    ELSE [lu EXCEPT !.pc = IF Len(previewIds) = 0 THEN "resolved" ELSE "upsert",
                    !.i = lu.i + 1, !.previewIds = previewIds]

\* linkUrls: the link_previews lookup of the current url
linkUrls_select(c, fault) ==
    /\ calls[c].lu.pc = "select"
    /\ LET lu == calls[c].lu
           url == lu.urls[lu.i]
           found == ~fault /\ \E l \in link_previews : l.url = url
       IN calls' = [calls EXCEPT ![c] = AllSettled(
                      IF found
                      THEN [@ EXCEPT !.lu = NextUrl(lu, Append(lu.previewIds, PreviewByUrl(url).id))]
                      ELSE [@ EXCEPT !.lu.pc = "insert"])]
    /\ UNCHANGED <<annotator, form, ui, now, nextPostId, store, feed, ret>>

\* linkUrls: the link_previews insert; on error it logs and continues
linkUrls_insert(c, fault) ==
    /\ calls[c].lu.pc = "insert"
    /\ LET lu == calls[c].lu
           url == lu.urls[lu.i]
           error == UniqueKeyInsertError({l.url : l \in link_previews}, url, fault)
           created == [id |-> Cardinality(link_previews) + 1, url |-> url]
       IN /\ link_previews' = IF error # NoError THEN link_previews
                              ELSE link_previews \cup {created}
          /\ calls' = [calls EXCEPT ![c] = AllSettled(
                         [@ EXCEPT !.lu = NextUrl(lu, IF error # NoError THEN lu.previewIds
                                                      ELSE Append(lu.previewIds, created.id))])]
    /\ UNCHANGED <<annotator, form, ui, now, nextPostId, posts, follows, likes, hashtags, post_hashtags,
                   mentions, post_links, feed, ret>>

\* linkUrls: the post_links upsert; its error is logged
linkUrls_upsert(c, fault) ==
    /\ calls[c].lu.pc = "upsert"
    /\ LET call == calls[c]
           rows == [k \in DOMAIN call.lu.previewIds |-> <<call.post.id, call.lu.previewIds[k]>>]
           error == PostChildInsertError(call.actor, call.post.id, fault)
       IN /\ post_links' = IF error # NoError THEN post_links
                           ELSE UpsertIgnoreDuplicates(post_links, rows)
          /\ calls' = [calls EXCEPT ![c] = AllSettled([@ EXCEPT !.lu.pc = "resolved"])]
    /\ UNCHANGED <<annotator, form, ui, now, nextPostId, posts, follows, likes, hashtags, post_hashtags,
                   mentions, link_previews, feed, ret>>


(***************************************************************************)
(* The one-request operations of the library.  Each throws the error its   *)
(* request resolved with, if any: `ret` names the call and that error.     *)
(***************************************************************************)
Settle(op, error) == [op |-> op, error |-> error]

TransportOnly(fault) == IF fault THEN TransportError ELSE NoError

deletePost(actor, postId, fault) ==
    /\ LET gone == IF fault THEN {}
                   ELSE {r.id : r \in PostsDeleteTargets(actor, postId)}
       IN /\ posts' = {r \in posts : r.id \notin gone}
          /\ likes' = CascadeLikeDelete(likes, gone)
          /\ post_hashtags' = CascadePostDelete(post_hashtags, gone)
          /\ mentions' = CascadePostDelete(mentions, gone)
          /\ post_links' = CascadePostDelete(post_links, gone)
    /\ ret' = Settle("deletePost", TransportOnly(fault))
    /\ UNCHANGED <<annotator, form, ui, now, nextPostId, follows, hashtags, link_previews, calls, feed>>

SoftDeleted(row, adminId) ==
    [row EXCEPT !.is_deleted = TRUE, !.deleted_by = adminId, !.deleted_at = now]

softDeletePost(actor, postId, adminId, fault) ==
    /\ LET targets == PostsUpdateTargets(actor, postId)
           error == IF fault THEN TransportError
                    ELSE IF \E r \in targets : ~PostsUpdateCheck(actor, SoftDeleted(r, adminId))
                         THEN RlsViolation
                         ELSE NoError
       IN /\ posts' = IF error # NoError THEN posts
                      ELSE {IF r \in targets THEN SoftDeleted(r, adminId) ELSE r : r \in posts}
          /\ ret' = Settle("softDeletePost", error)
    /\ UNCHANGED <<annotator, form, ui, now, nextPostId, follows, likes, hashtags, post_hashtags, mentions,
                   link_previews, post_links, calls, feed>>

followUser(actor, followerId, followingId, fault) ==
    /\ LET error == FollowsInsertError(actor, followerId, followingId, fault)
       IN /\ follows' = IF error # NoError THEN follows
                        ELSE BagInsert(follows, <<followerId, followingId>>)
          /\ ret' = Settle("followUser", error)
    /\ UNCHANGED <<annotator, form, ui, now, nextPostId, posts, likes, hashtags, post_hashtags, mentions,
                   link_previews, post_links, calls, feed>>

unfollowUser(actor, followerId, followingId, fault) ==
    /\ follows' = IF fault THEN follows
                  ELSE FollowsDelete(follows, actor, followerId, followingId)
    /\ ret' = Settle("unfollowUser", TransportOnly(fault))
    /\ UNCHANGED <<annotator, form, ui, now, nextPostId, posts, likes, hashtags, post_hashtags, mentions,
                   link_previews, post_links, calls, feed>>

likePost(actor, userId, postId, fault) ==
    /\ LET error == LikesInsertError(actor, userId, postId, fault)
       IN /\ likes' = IF error # NoError THEN likes ELSE BagInsert(likes, <<userId, postId>>)
          /\ ret' = Settle("likePost", error)
    /\ UNCHANGED <<annotator, form, ui, now, nextPostId, posts, follows, hashtags, post_hashtags, mentions,
                   link_previews, post_links, calls, feed>>

unlikePost(actor, userId, postId, fault) ==
    /\ likes' = IF fault THEN likes
                ELSE BagWithout(likes, {r \in DOMAIN likes :
                        r = <<userId, postId>> /\ actor = r[1]})
    /\ ret' = Settle("unlikePost", TransportOnly(fault))
    /\ UNCHANGED <<annotator, form, ui, now, nextPostId, posts, follows, hashtags, post_hashtags, mentions,
                   link_previews, post_links, calls, feed>>

(***************************************************************************)
(* The feed reads of the library.  getHomeFeed awaits twice: the follows   *)
(* read, then the posts query.                                             *)
(***************************************************************************)
IdleFeed == [fn |-> Null, pc |-> "idle", followingIds |-> {}, data |-> <<>>]

FeedFree == feed.pc \in {"idle", "returned", "thrown"}

\* what a feed read leaves once it has settled: the page, or nothing when it threw
FeedReturned(fn, data) == [IdleFeed EXCEPT !.fn = fn, !.pc = "returned", !.data = data]
FeedThrown(fn) == [IdleFeed EXCEPT !.fn = fn, !.pc = "thrown"]

\* getHomeFeed: the follows read; a failed read leaves following.data undefined
getHomeFeed_follows(userId, fault) ==
    /\ FeedFree
    /\ LET followingIds == FollowingIds(userId, fault)
       IN feed' = IF Cardinality(followingIds) = 0
                  THEN FeedReturned("getHomeFeed", <<>>)
                  ELSE [IdleFeed EXCEPT !.fn = "getHomeFeed", !.pc = "query",
                                        !.followingIds = followingIds]
    /\ UNCHANGED <<annotator, form, ui, now, nextPostId, store, calls, ret>>

\* getHomeFeed: the posts query, `if (error) throw error; return data`.  The
\* arguments cursor and limit are first read here.
getHomeFeed_posts(cursor, limit, fault) ==
    /\ feed.fn = "getHomeFeed" /\ feed.pc = "query"
    /\ IF fault
       THEN feed' = FeedThrown("getHomeFeed")
       ELSE \E data \in FeedQuery(feed.followingIds, cursor, limit) :
                feed' = FeedReturned("getHomeFeed", data)
    /\ UNCHANGED <<annotator, form, ui, now, nextPostId, store, calls, ret>>

getUserPosts(userId, cursor, limit, fault) ==
    /\ FeedFree
    /\ IF fault
       THEN feed' = FeedThrown("getUserPosts")
       ELSE \E data \in FeedQuery({userId}, cursor, limit) :
                feed' = FeedReturned("getUserPosts", data)
    /\ UNCHANGED <<annotator, form, ui, now, nextPostId, store, calls, ret>>

(***************************************************************************)
(* The Post component (components/Post.tsx).  `props` are what the page    *)
(* rendered it with, likeCount / isLiked / liking / deleting its useState  *)
(* cells, handleLike and handleDelete the closures of the handlers that    *)
(* are awaiting their request.  `history` is not program state: it records *)
(* the last two handleLike calls that settled, for the properties about    *)
(* consecutive toggles.                                                    *)
(***************************************************************************)
\* the locals of a pending fetchPosts(cursor) of a page
NoFetch ==
    [pc |-> "idle", cursor |-> NoCursor, followingIds |-> {}, postIds |-> {},
     likeCounts |-> [pc |-> "pending", data |-> <<>>],
     userLikes |-> [pc |-> "pending", data |-> {}]]

\* a mutant: a full page also ends the list
HasMoreAfterFull(hasMore, newPosts) ==
    IF Len(newPosts) <= PageLimit THEN FALSE ELSE hasMore

\* a mutant: no page ends the list
HasMoreKept(hasMore, newPosts) == hasMore

\* if (newPosts.length < 20) setHasMore(false)
HasMoreAfter(hasMore, newPosts) ==
    IF Len(newPosts) < PageLimit THEN FALSE ELSE hasMore

\* cursor ? [...prev, ...newPosts] : newPosts
PostsAfter(prev, cursor, newPosts) ==
    IF cursor # NoCursor THEN prev \o newPosts ELSE newPosts

\* handlePostDeleted: prev.filter((p) => p.id !== postId)
RECURSIVE PostsWithout(_, _)
PostsWithout(prev, postId) ==
    IF prev = <<>> THEN <<>>
    ELSE (IF Head(prev).id = postId THEN <<>> ELSE <<Head(prev)>>)
            \o PostsWithout(Tail(prev), postId)

NoPostComp ==
    [mounted |-> FALSE, profile |-> Null, post |-> NoRow,
     likeCount |-> 0, isLiked |-> FALSE, liking |-> FALSE, deleting |-> FALSE,
     handleLike |-> [isLiked |-> FALSE, likeCount |-> 0],
     history |-> <<>>]

LikeCountOf(postId) == Cardinality({r \in BagToSet(likes) : r[2] = postId})

\* the likes the page reads for a post (part_000 94-125, page.tsx 147-178)
LikesMapEntry(viewer, postId) ==
    [count |-> LikeCountOf(postId), isLiked |-> BagIn(<<viewer, postId>>, likes)]

\* the first likes query of fetchPosts, reduced to what the page reads of it:
\* the number of returned rows per post id; a failed query resolves with no data
LikeCountsRead(postIds, fault) ==
    IF fault THEN [pc |-> "error", data |-> <<>>]
    ELSE [pc |-> "ok", data |-> [id \in postIds |-> LikeCountOf(id)]]

\* the second likes query of fetchPosts: the post ids the viewer liked
UserLikesRead(viewer, postIds, fault) ==
    IF fault THEN [pc |-> "error", data |-> {}]
    ELSE [pc |-> "ok", data |-> {id \in postIds : BagIn(<<viewer, id>>, likes)}]

\* a mutant: isLiked is whether anyone liked the post
NewLikesMapAnyone(f) ==
    [id \in f.postIds |->
        [count |-> IF f.likeCounts.pc = "ok" THEN f.likeCounts.data[id] ELSE 0,
         isLiked |-> f.likeCounts.pc = "ok" /\ f.likeCounts.data[id] > 0]]

\* newLikesMap of fetchPosts: likeCountMap[postId] || 0, userLikedSet.has(postId)
NewLikesMap(f) ==
    [id \in f.postIds |->
        [count |-> IF f.likeCounts.pc = "ok" THEN f.likeCounts.data[id] ELSE 0,
         isLiked |-> f.userLikes.pc = "ok" /\ id \in f.userLikes.data]]

\* setLikesMap((prev) => ({ ...prev, ...newLikesMap }))
MergeLikesMap(prev, new) ==
    [id \in DOMAIN prev \cup DOMAIN new |-> IF id \in DOMAIN new THEN new[id] ELSE prev[id]]

\* the posts a page renders: none behind the loading spinner
RenderedIds(page) ==
    IF page.loading THEN {} ELSE {page.posts[k].id : k \in DOMAIN page.posts}

\* a mutant: the Post component shows the props of the present render
RenderProps(before, after) ==
    [after EXCEPT !.cells =
        [id \in RenderedIds(after) |->
            IF id \in DOMAIN after.likesMap
            THEN [likeCount |-> after.likesMap[id].count, isLiked |-> after.likesMap[id].isLiked]
            ELSE [likeCount |-> 0, isLiked |-> FALSE]]]

\* A render of the page after its state changed: a Post component (key
\* post.id) that was rendered keeps its likeCount and isLiked cells, a new one
\* starts them from initialLikeCount and initialIsLiked of this render.
Render(before, after) ==
    [after EXCEPT !.cells =
        [id \in RenderedIds(after) |->
            IF id \in DOMAIN before.cells THEN before.cells[id]
            ELSE IF id \in DOMAIN after.likesMap
            THEN [likeCount |-> after.likesMap[id].count, isLiked |-> after.likesMap[id].isLiked]
            ELSE [likeCount |-> 0, isLiked |-> FALSE]]]

\* <Post post={post} initialLikeCount={likesMap[post.id]?.count || 0}
\*       initialIsLiked={likesMap[post.id]?.isLiked || false} />, first render:
\* useState keeps the initial values.  `loaded` says whether likesMap had
\* the post's entry at that render.
Post_mount(viewer, postId, loaded) ==
    /\ ~postComp.mounted
    /\ \E r \in posts :
          /\ r.id = postId /\ ~r.is_deleted
          /\ postComp' = [NoPostComp EXCEPT
                !.mounted = TRUE, !.profile = viewer,
                !.post = [id |-> r.id, user_id |-> r.user_id],
                !.likeCount = IF loaded THEN LikesMapEntry(viewer, postId).count ELSE 0,
                !.isLiked = IF loaded THEN LikesMapEntry(viewer, postId).isLiked ELSE FALSE]
    /\ UNCHANGED <<annotator, form, now, nextPostId, store, calls, feed, ret, profilePage, homePage>>

\* the page drops the component (navigation, or the post leaves the list)
Post_unmount ==
    /\ postComp.mounted
    /\ postComp' = NoPostComp
    /\ UNCHANGED <<annotator, form, now, nextPostId, store, calls, feed, ret, profilePage, homePage>>

\* a mutant: the optimistic count goes up whatever isLiked is
OptimisticLikeUp(isLiked, likeCount) ==
    [isLiked |-> ~isLiked, likeCount |-> likeCount + 1]

\* optimisticLiked, optimisticCount
OptimisticLike(isLiked, likeCount) ==
    [isLiked |-> ~isLiked,
     likeCount |-> IF isLiked THEN likeCount - 1 ELSE likeCount + 1]

\* a mutant: the catch block leaves the optimistic count in place
RevertLikeKeepCount(closure) ==
    [isLiked |-> ~OptimisticLike(closure.isLiked, closure.likeCount).isLiked,
     likeCount |-> OptimisticLike(closure.isLiked, closure.likeCount).likeCount]

\* catch: setIsLiked(!optimisticLiked); setLikeCount(isLiked ? likeCount : likeCount)
RevertLike(closure) ==
    [isLiked |-> ~OptimisticLike(closure.isLiked, closure.likeCount).isLiked,
     likeCount |-> IF closure.isLiked THEN closure.likeCount ELSE closure.likeCount]

\* handleLike up to its await: the optimistic update
handleLike_click ==
    /\ postComp.mounted
    /\ ~postComp.liking
    /\ postComp' = [postComp EXCEPT
          !.liking = TRUE,
          !.handleLike = [isLiked |-> postComp.isLiked, likeCount |-> postComp.likeCount],
          !.isLiked = OptimisticLike(postComp.isLiked, postComp.likeCount).isLiked,
          !.likeCount = OptimisticLike(postComp.isLiked, postComp.likeCount).likeCount]
    /\ UNCHANGED <<annotator, form, now, nextPostId, store, calls, feed, ret, profilePage, homePage>>

LastTwo(log) == IF Len(log) > 2 THEN SubSeq(log, Len(log) - 1, Len(log)) ELSE log

\* handleLike from the request on: unlikePost or likePost at the store, then
\* catch (revert) and finally (clear liking)
handleLike_settle(fault) ==
    /\ postComp.mounted
    /\ postComp.liking
    /\ LET closure == postComp.handleLike
           userId == postComp.profile
           postId == postComp.post.id
           error == IF closure.isLiked THEN TransportOnly(fault)
                    ELSE LikesInsertError(userId, userId, postId, fault)
           rowBefore == BagIn(<<userId, postId>>, likes)
       IN /\ likes' = IF error # NoError THEN likes
                      ELSE IF closure.isLiked
                      THEN BagWithout(likes, {r \in DOMAIN likes : r = <<userId, postId>>})
                      ELSE BagInsert(likes, <<userId, postId>>)
          /\ ret' = Settle(IF closure.isLiked THEN "unlikePost" ELSE "likePost", error)
          /\ postComp' = [postComp EXCEPT
                !.liking = FALSE,
                !.isLiked = IF error # NoError THEN RevertLike(closure).isLiked ELSE @,
                !.likeCount = IF error # NoError THEN RevertLike(closure).likeCount ELSE @,
                !.history = LastTwo(Append(@,
                    [isLiked |-> closure.isLiked, likeCount |-> closure.likeCount,
                     rowBefore |-> rowBefore,
                     rowAfter |-> BagIn(<<userId, postId>>, likes'),
                     error |-> error]))]
    /\ UNCHANGED <<annotator, form, now, nextPostId, posts, follows, hashtags, post_hashtags, mentions,
                   link_previews, post_links, calls, feed, profilePage, homePage>>

\* handleDelete up to the first await; the button is rendered for the author
\* and for an admin
handleDelete_click ==
    /\ postComp.mounted
    /\ ~postComp.deleting
    /\ postComp.profile = postComp.post.user_id \/ is_admin(postComp.profile)
    /\ postComp' = [postComp EXCEPT !.deleting = TRUE]
    /\ UNCHANGED <<annotator, form, now, nextPostId, store, calls, feed, ret, profilePage, homePage>>

\* handleDelete from the request on: deletePost for the author, softDeletePost
\* for an admin who is not the author, then onDelete (the page drops the post
\* from its list), or catch, and finally (clear deleting)
handleDelete_settle(fault) ==
    /\ postComp.mounted
    /\ postComp.deleting
    /\ LET actor == postComp.profile
           postId == postComp.post.id
           isOwnPost == actor = postComp.post.user_id
           isAdmin == is_admin(actor)
           targets == IF isOwnPost THEN PostsDeleteTargets(actor, postId)
                      ELSE IF isAdmin THEN PostsUpdateTargets(actor, postId)
                      ELSE {}
           error == IF ~isOwnPost /\ ~isAdmin THEN NoError
                    ELSE IF fault THEN TransportError
                    ELSE IF ~isOwnPost /\ \E r \in targets :
                                             ~PostsUpdateCheck(actor, SoftDeleted(r, actor))
                         THEN RlsViolation
                         ELSE NoError
           gone == IF isOwnPost /\ error = NoError THEN {r.id : r \in targets} ELSE {}
       IN /\ posts' = IF error # NoError THEN posts
                      ELSE IF isOwnPost THEN {r \in posts : r.id \notin gone}
                      ELSE {IF r \in targets THEN SoftDeleted(r, actor) ELSE r : r \in posts}
          /\ likes' = CascadeLikeDelete(likes, gone)
          /\ post_hashtags' = CascadePostDelete(post_hashtags, gone)
          /\ mentions' = CascadePostDelete(mentions, gone)
          /\ post_links' = CascadePostDelete(post_links, gone)
          /\ ret' = Settle(IF isOwnPost THEN "deletePost" ELSE "softDeletePost", error)
          /\ postComp' = IF error = NoError THEN NoPostComp
                         ELSE [postComp EXCEPT !.deleting = FALSE]
          /\ homePage' = IF error = NoError
                         THEN Render(homePage, [homePage EXCEPT !.posts = PostsWithout(@, postId)])
                         ELSE homePage
          /\ profilePage' = IF error = NoError
                            THEN Render(profilePage,
                                        [profilePage EXCEPT !.posts = PostsWithout(@, postId)])
                            ELSE profilePage
    /\ UNCHANGED <<annotator, form, now, nextPostId, follows, hashtags, link_previews, calls, feed>>

(***************************************************************************)
(* The ProfilePage component (app/[handle]/page.tsx): the follow button.   *)
(***************************************************************************)
NoProfilePage ==
    [profile |-> Null, currentProfile |-> Null,
     isFollowingUser |-> FALSE, followerCount |-> 0, followLoading |-> FALSE,
     handleFollow |-> [isFollowingUser |-> FALSE, followerCount |-> 0],
     posts |-> <<>>, loading |-> TRUE, hasMore |-> TRUE, loadingMore |-> FALSE,
     likesMap |-> <<>>, cells |-> <<>>, fetchPosts |-> NoFetch]

\* getFollowerCount(userId)
FollowerCountOf(userId) == Cardinality({r \in BagToSet(follows) : r[2] = userId})

\* fetchProfile: setProfile, then the counts and isFollowing, then
\* fetchPosts(profileData.id); when one of the three reads throws the cells keep
\* their initial values and fetchPosts is not called
ProfilePage_fetchProfile(viewer, profileId, fault) ==
    /\ profilePage.profile = Null
    /\ profilePage' = [NoProfilePage EXCEPT
          !.profile = profileId, !.currentProfile = viewer,
          !.followerCount = IF fault THEN 0 ELSE FollowerCountOf(profileId),
          !.isFollowingUser = IF fault THEN FALSE
                              ELSE BagIn(<<viewer, profileId>>, follows),
          !.loading = ~fault,
          !.fetchPosts = IF fault THEN NoFetch ELSE [NoFetch EXCEPT !.pc = "posts"]]
    /\ UNCHANGED <<annotator, form, now, nextPostId, store, calls, feed, ret, postComp, homePage>>

\* a mutant: the optimistic follower count is not touched
OptimisticFollowKeepCount(isFollowingUser, followerCount) ==
    [isFollowingUser |-> ~isFollowingUser, followerCount |-> followerCount]

\* optimisticFollowing, optimisticCount
OptimisticFollow(isFollowingUser, followerCount) ==
    [isFollowingUser |-> ~isFollowingUser,
     followerCount |-> IF isFollowingUser THEN followerCount - 1 ELSE followerCount + 1]

\* catch: setIsFollowingUser(!optimisticFollowing);
\*        setFollowerCount(isFollowingUser ? followerCount : followerCount)
RevertFollow(closure) ==
    [isFollowingUser |->
        ~OptimisticFollow(closure.isFollowingUser, closure.followerCount).isFollowingUser,
     followerCount |-> IF closure.isFollowingUser THEN closure.followerCount
                       ELSE closure.followerCount]

\* handleFollow up to its await; the button is rendered on other users' profiles
handleFollow_click ==
    /\ profilePage.profile # Null
    /\ profilePage.profile # profilePage.currentProfile
    /\ ~profilePage.followLoading
    /\ LET optimistic == OptimisticFollow(profilePage.isFollowingUser,
                                          profilePage.followerCount)
       IN profilePage' = [profilePage EXCEPT
             !.followLoading = TRUE,
             !.handleFollow = [isFollowingUser |-> profilePage.isFollowingUser,
                               followerCount |-> profilePage.followerCount],
             !.isFollowingUser = optimistic.isFollowingUser,
             !.followerCount = optimistic.followerCount]
    /\ UNCHANGED <<annotator, form, now, nextPostId, store, calls, feed, ret, postComp, homePage>>

\* handleFollow from the request on: unfollowUser or followUser at the store,
\* then catch (revert) and finally (clear followLoading)
handleFollow_settle(fault) ==
    /\ profilePage.followLoading
    /\ LET closure == profilePage.handleFollow
           followerId == profilePage.currentProfile
           followingId == profilePage.profile
           error == IF closure.isFollowingUser THEN TransportOnly(fault)
                    ELSE FollowsInsertError(followerId, followerId, followingId, fault)
       IN /\ follows' = IF error # NoError THEN follows
                        ELSE IF closure.isFollowingUser
                        THEN FollowsDelete(follows, followerId, followerId, followingId)
                        ELSE BagInsert(follows, <<followerId, followingId>>)
          /\ ret' = Settle(IF closure.isFollowingUser THEN "unfollowUser" ELSE "followUser",
                           error)
          /\ profilePage' = [profilePage EXCEPT
                !.followLoading = FALSE,
                !.isFollowingUser = IF error # NoError THEN RevertFollow(closure).isFollowingUser
                                    ELSE @,
                !.followerCount = IF error # NoError THEN RevertFollow(closure).followerCount
                                  ELSE @]
    /\ UNCHANGED <<annotator, form, now, nextPostId, posts, likes, hashtags, post_hashtags, mentions,
                   link_previews, post_links, calls, feed, postComp, homePage>>

\* finally of fetchPosts, and of fetchProfile when it awaited this fetch
ProfileFetchSettled(pp) ==
    [pp EXCEPT !.fetchPosts = NoFetch, !.loading = FALSE, !.loadingMore = FALSE]

\* ProfilePage.fetchPosts from the posts query to setHasMore; a query error is
\* thrown to catch and finally
ProfilePage_fetchPosts_posts(fault) ==
    /\ profilePage.fetchPosts.pc = "posts"
    /\ IF fault
       THEN profilePage' = Render(profilePage, ProfileFetchSettled(profilePage))
       ELSE \E data \in ProfilePageQuery(profilePage.profile, profilePage.fetchPosts.cursor) :
               profilePage' = Render(profilePage, [profilePage EXCEPT
                   !.posts = PostsAfter(@, profilePage.fetchPosts.cursor, data),
                   !.hasMore = HasMoreAfter(@, data),
                   !.fetchPosts.pc = "likes",
                   !.fetchPosts.postIds = {data[k].id : k \in DOMAIN data}])
    /\ UNCHANGED <<annotator, form, now, nextPostId, store, calls, feed, ret, postComp, homePage>>

\* ProfilePage.fetchPosts: the first query of Promise.all resolves
ProfilePage_fetchPosts_likeCounts(fault) ==
    /\ profilePage.fetchPosts.pc = "likes"
    /\ profilePage.fetchPosts.likeCounts.pc = "pending"
    /\ profilePage' = [profilePage EXCEPT !.fetchPosts.likeCounts =
                          LikeCountsRead(profilePage.fetchPosts.postIds, fault)]
    /\ UNCHANGED <<annotator, form, now, nextPostId, store, calls, feed, ret, postComp, homePage>>

\* ProfilePage.fetchPosts: the second query of Promise.all resolves
ProfilePage_fetchPosts_userLikes(fault) ==
    /\ profilePage.fetchPosts.pc = "likes"
    /\ profilePage.fetchPosts.userLikes.pc = "pending"
    /\ profilePage' = [profilePage EXCEPT !.fetchPosts.userLikes =
                          UserLikesRead(profilePage.currentProfile,
                                        profilePage.fetchPosts.postIds, fault)]
    /\ UNCHANGED <<annotator, form, now, nextPostId, store, calls, feed, ret, postComp, homePage>>

\* ProfilePage.fetchPosts after the two likes reads: setLikesMap, finally
ProfilePage_fetchPosts_likes ==
    /\ profilePage.fetchPosts.pc = "likes"
    /\ profilePage.fetchPosts.likeCounts.pc # "pending"
    /\ profilePage.fetchPosts.userLikes.pc # "pending"
    /\ profilePage' = Render(profilePage, ProfileFetchSettled([profilePage EXCEPT
          !.likesMap = MergeLikesMap(@, NewLikesMap(profilePage.fetchPosts))]))
    /\ UNCHANGED <<annotator, form, now, nextPostId, store, calls, feed, ret, postComp, homePage>>

\* ProfilePage.handleLoadMore; the button is rendered while hasMore
ProfilePage_handleLoadMore ==
    /\ profilePage.profile # Null
    /\ ~profilePage.loading
    /\ profilePage.hasMore
    /\ Len(profilePage.posts) > 0
    /\ ~profilePage.loadingMore
    /\ profilePage.fetchPosts.pc = "idle"
    /\ profilePage' = [profilePage EXCEPT
          !.loadingMore = TRUE,
          !.fetchPosts = [NoFetch EXCEPT
              !.pc = "posts",
              !.cursor = profilePage.posts[Len(profilePage.posts)].created_at]]
    /\ UNCHANGED <<annotator, form, now, nextPostId, store, calls, feed, ret, postComp, homePage>>

(***************************************************************************)
(* The HomePage component (part_000): the list of posts and fetchPosts.    *)
(* fetches holds the locals of the fetchPosts invocations in flight.       *)
(***************************************************************************)
MaxFetches == 2

NoHomePage ==
    [profile |-> Null, posts |-> <<>>, loading |-> TRUE, hasMore |-> TRUE,
     loadingMore |-> FALSE, likesMap |-> <<>>, cells |-> <<>>, fetches |-> <<>>]

Remove(seq, i) == SubSeq(seq, 1, i - 1) \o SubSeq(seq, i + 1, Len(seq))

\* the effect on profile: fetchPosts()
HomePage_mount(viewer) ==
    /\ homePage.profile = Null
    /\ homePage' = [NoHomePage EXCEPT
          !.profile = viewer, !.fetches = <<[NoFetch EXCEPT !.pc = "follows"]>>]
    /\ UNCHANGED <<annotator, form, now, nextPostId, store, calls, feed, ret, postComp, profilePage>>

\* HomePage.fetchPosts: the follows read and followingIds.push(profile.id)
HomePage_fetchPosts_follows(i, fault) ==
    /\ i \in DOMAIN homePage.fetches
    /\ homePage.fetches[i].pc = "follows"
    /\ homePage' = [homePage EXCEPT
          !.fetches[i].followingIds = FollowingIds(homePage.profile, fault),
          !.fetches[i].pc = "posts"]
    /\ UNCHANGED <<annotator, form, now, nextPostId, store, calls, feed, ret, postComp, profilePage>>

\* finally: setLoading(false); setLoadingMore(false)
FetchSettled(hp, i) ==
    [hp EXCEPT !.fetches = Remove(@, i), !.loading = FALSE, !.loadingMore = FALSE]

\* HomePage.fetchPosts from the posts query to setHasMore; a query error is
\* thrown to catch and finally
HomePage_fetchPosts_posts(i, fault) ==
    /\ i \in DOMAIN homePage.fetches
    /\ homePage.fetches[i].pc = "posts"
    /\ IF fault
       THEN homePage' = Render(homePage, FetchSettled(homePage, i))
       ELSE \E data \in HomePageQuery(homePage.fetches[i].followingIds,
                                     homePage.fetches[i].cursor) :
               homePage' = Render(homePage, [homePage EXCEPT
                   !.posts = PostsAfter(@, homePage.fetches[i].cursor, data),
                   !.hasMore = HasMoreAfter(@, data),
                   !.fetches[i].pc = "likes",
                   !.fetches[i].postIds = {data[k].id : k \in DOMAIN data}])
    /\ UNCHANGED <<annotator, form, now, nextPostId, store, calls, feed, ret, postComp, profilePage>>

\* HomePage.fetchPosts: the first query of Promise.all resolves
HomePage_fetchPosts_likeCounts(i, fault) ==
    /\ i \in DOMAIN homePage.fetches
    /\ homePage.fetches[i].pc = "likes"
    /\ homePage.fetches[i].likeCounts.pc = "pending"
    /\ homePage' = [homePage EXCEPT !.fetches[i].likeCounts =
                       LikeCountsRead(homePage.fetches[i].postIds, fault)]
    /\ UNCHANGED <<annotator, form, now, nextPostId, store, calls, feed, ret, postComp, profilePage>>

\* HomePage.fetchPosts: the second query of Promise.all resolves
HomePage_fetchPosts_userLikes(i, fault) ==
    /\ i \in DOMAIN homePage.fetches
    /\ homePage.fetches[i].pc = "likes"
    /\ homePage.fetches[i].userLikes.pc = "pending"
    /\ homePage' = [homePage EXCEPT !.fetches[i].userLikes =
                       UserLikesRead(homePage.profile, homePage.fetches[i].postIds, fault)]
    /\ UNCHANGED <<annotator, form, now, nextPostId, store, calls, feed, ret, postComp, profilePage>>

\* HomePage.fetchPosts after the two likes reads: setLikesMap, finally
HomePage_fetchPosts_likes(i) ==
    /\ i \in DOMAIN homePage.fetches
    /\ homePage.fetches[i].pc = "likes"
    /\ homePage.fetches[i].likeCounts.pc # "pending"
    /\ homePage.fetches[i].userLikes.pc # "pending"
    /\ homePage' = Render(homePage, FetchSettled([homePage EXCEPT
          !.likesMap = MergeLikesMap(@, NewLikesMap(homePage.fetches[i]))], i))
    /\ UNCHANGED <<annotator, form, now, nextPostId, store, calls, feed, ret, postComp, profilePage>>

\* HomePage.handleLoadMore; the button is rendered while hasMore, once the
\* first fetch has settled
HomePage_handleLoadMore ==
    /\ homePage.profile # Null
    /\ ~homePage.loading
    /\ homePage.hasMore
    /\ Len(homePage.posts) > 0
    /\ ~homePage.loadingMore
    /\ Len(homePage.fetches) < MaxFetches
    /\ homePage' = [homePage EXCEPT
          !.loadingMore = TRUE,
          !.fetches = Append(@, [NoFetch EXCEPT
              !.pc = "follows",
              !.cursor = homePage.posts[Len(homePage.posts)].created_at])]
    /\ UNCHANGED <<annotator, form, now, nextPostId, store, calls, feed, ret, postComp, profilePage>>

\* handlePostCreated: setHasMore(true); fetchPosts()
PostCreated(hp) ==
    [hp EXCEPT !.hasMore = TRUE, !.fetches = Append(@, [NoFetch EXCEPT !.pc = "follows"])]

\* HomePage.handlePostCreated, the onPostCreated of CreatePost, which is
\* rendered once the first fetch has settled
HomePage_handlePostCreated ==
    /\ homePage.profile # Null
    /\ ~homePage.loading
    /\ Len(homePage.fetches) < MaxFetches
    /\ homePage' = PostCreated(homePage)
    /\ UNCHANGED <<annotator, form, now, nextPostId, store, calls, feed, ret, postComp, profilePage>>

(***************************************************************************)
(* The CreatePost component (components/CreatePost.tsx).                   *)
(***************************************************************************)
CreatePost_mount(viewer) ==
    /\ form.profile = Null
    /\ form' = [NoForm EXCEPT !.profile = viewer]
    /\ UNCHANGED <<annotator, now, nextPostId, store, calls, feed, ret, ui>>

\* the textarea's onChange and the image picker
CreatePost_input(content, imageFile) ==
    /\ form.profile # Null
    /\ form' = [form EXCEPT !.content = content, !.imageFile = imageFile]
    /\ UNCHANGED <<annotator, now, nextPostId, store, calls, feed, ret, ui>>

\* content.trim() is not empty
HasNonSpace(content) == \E i \in DOMAIN content : content[i] \notin Whitespace

canPost == HasNonSpace(form.content) /\ ~(Len(form.content) > MaxContentLength) /\ ~form.loading

\* handleSubmit up to the call of createPost; uploadImage is a local object URL
handleSubmit_click(c) ==
    /\ form.profile # Null
    /\ canPost
    /\ form.pc = "idle"
    /\ form' = [form EXCEPT
          !.loading = TRUE, !.pc = "createPost", !.call = c, !.notified = FALSE,
          !.handleSubmit = [content |-> form.content, imageFile |-> form.imageFile]]
    /\ UNCHANGED <<annotator, now, nextPostId, store, calls, feed, ret, ui>>

\* handleSubmit: createPost(profile.id, content, imageUrl), with the session
\* still signed in or not
handleSubmit_createPost(signedIn, fault) ==
    /\ form.pc = "createPost"
    /\ createPost_call(form.call, IF signedIn THEN form.profile ELSE Null,
                       form.profile, form.handleSubmit.content, fault)
    /\ form' = [form EXCEPT !.pc = "await"]

\* a mutant: the form is cleared and the page notified in finally
SubmitSettledAlways(f, resolved) ==
    [f EXCEPT !.content = <<>>, !.imageFile = FALSE, !.notified = TRUE,
              !.loading = FALSE, !.pc = "idle"]

\* handleSubmit after the await: clear the form and call onPostCreated, or
\* catch; finally setLoading(false)
SubmitSettled(f, resolved) ==
    IF resolved
    THEN [f EXCEPT !.content = <<>>, !.imageFile = FALSE, !.notified = TRUE,
                   !.loading = FALSE, !.pc = "idle"]
    ELSE [f EXCEPT !.loading = FALSE, !.pc = "idle"]

handleSubmit_settle ==
    /\ form.pc = "await"
    /\ calls[form.call].pc \in {"returned", "thrown"}
    /\ form' = SubmitSettled(form, calls[form.call].pc = "returned")
    /\ IF form'.notified /\ homePage.profile # Null
       THEN /\ Len(homePage.fetches) < MaxFetches
            /\ homePage' = PostCreated(homePage)
       ELSE homePage' = homePage
    /\ UNCHANGED <<annotator, now, nextPostId, store, calls, feed, ret, postComp, profilePage>>

\* time passes
Tick ==
    /\ now < MaxTime
    /\ now' = now + 1
    /\ UNCHANGED <<annotator, form, ui, nextPostId, store, calls, feed, ret>>

(***************************************************************************)
(* Spec: the store under the post, follow and feed operations.  Posts are  *)
(* created with text that has no tag, mention or link, so createPost is    *)
(* its insert alone.  The follow rows that change are those of Viewers,    *)
(* changed by their owner, and of the requests only the reads and the      *)
(* posts insert fail in transport (a failed delete, update or follow       *)
(* leaves the store as it was; SpecFollow has them).  Soft deletes pass    *)
(* the acting user as adminId, as Post.handleDelete does.                  *)
(***************************************************************************)
PlainContents == {<<"h", "i">>, <<>>}

\* the users whose follow rows change in Spec
Viewers == {"alice"}

InitRest ==
    /\ now = 1
    /\ follows = EmptyBag
    /\ likes = EmptyBag
    /\ hashtags = {}
    /\ post_hashtags = EmptyBag
    /\ mentions = EmptyBag
    /\ link_previews = {}
    /\ post_links = EmptyBag
    /\ calls = [c \in CallIds |-> IdleCall]
    /\ feed = IdleFeed
    /\ ret = Settle(Null, NoError)
    /\ postComp = NoPostComp
    /\ profilePage = NoProfilePage
    /\ homePage = NoHomePage
    /\ annotator = NoAnnotator
    /\ form = NoForm

Init ==
    /\ nextPostId = 1
    /\ posts = {}
    /\ InitRest

\* A row whose is_deleted, deleted_by and deleted_at were written by a role that
\* row-level security does not bind (the table owner, the service role).
ModeratedPost ==
    [id |-> 1, user_id |-> "bob", content |-> "hi",
     is_deleted |-> TRUE, deleted_by |-> "alice", deleted_at |-> 1,
     created_at |-> 1]

\* The store as the feed reads may find it: empty, or holding a moderated row.
InitModerated ==
    /\ \E moderated \in BOOLEAN :
          /\ posts = IF moderated THEN {ModeratedPost} ELSE {}
          /\ nextPostId = IF moderated THEN 2 ELSE 1
    /\ InitRest

Next ==
    \/ Tick
    \/ \E actor \in Users, userId \in Users, content \in PlainContents, fault \in BOOLEAN :
          createPost(1, actor, userId, content, fault)
    \/ \E actor \in Users, postId \in PostIds : deletePost(actor, postId, FALSE)
    \/ \E actor \in Users, postId \in PostIds : softDeletePost(actor, postId, actor, FALSE)
    \/ \E a \in Viewers, b \in Users : followUser(a, a, b, FALSE)
    \/ \E a \in Viewers, b \in Users : unfollowUser(a, a, b, FALSE)
    \/ \E userId \in Users, fault \in BOOLEAN : getHomeFeed_follows(userId, fault)
    \/ \E cursor \in Cursors, limit \in Limits, fault \in BOOLEAN :
          getHomeFeed_posts(cursor, limit, fault)
    \/ \E userId \in Users, cursor \in Cursors, limit \in Limits, fault \in BOOLEAN :
          getUserPosts(userId, cursor, limit, fault)

Spec == InitModerated /\ [][Next]_vars


(***************************************************************************)
(* SpecFollow: the follows table under followUser and unfollowUser with    *)
(* every actor, every pair and transport faults, read by getHomeFeed.      *)
(***************************************************************************)
NextFollow ==
    \/ \E actor \in Users, a \in Users, b \in Users, fault \in BOOLEAN :
          followUser(actor, a, b, fault)
    \/ \E actor \in Users, a \in Users, b \in Users, fault \in BOOLEAN :
          unfollowUser(actor, a, b, fault)
    \/ \E userId \in Users, fault \in BOOLEAN : getHomeFeed_follows(userId, fault)
    \/ \E cursor \in Cursors, limit \in Limits, fault \in BOOLEAN :
          getHomeFeed_posts(cursor, limit, fault)

SpecFollow == Init /\ [][NextFollow]_vars


(***************************************************************************)
(* SpecEnrich: createPost calls that overlap, with every step of the three *)
(* enrichment sub-operations and a transport failure possible at each      *)
(* request.  SpecRace is the same without transport failures, so that the  *)
(* only requests that fail are the ones the store refuses.                 *)
(***************************************************************************)
\* "#a @bob http://x"
RichContent ==
    <<"#", "a", " ", "@", "b", "o", "b", " ", "h", "t", "t", "p", ":", "/", "/", "x">>

\* "#A #b"
TwoTags == <<"#", "A", " ", "#", "b">>

RaceContents == {RichContent, <<"h", "i">>}
EnrichContents == RaceContents \cup {TwoTags}

EnrichStep(faults) ==
    \E c \in CallIds, fault \in faults :
        \/ \E k \in 1..2 : getOrCreateHashtag_select(c, k, fault)
        \/ \E k \in 1..2 : getOrCreateHashtag_insert(c, k, fault)
        \/ linkHashtags_upsert(c, fault)
        \/ insertMentions_select(c, fault)
        \/ insertMentions_insert(c, fault)
        \/ linkUrls_select(c, fault)
        \/ linkUrls_insert(c, fault)
        \/ linkUrls_upsert(c, fault)

NextEnrich ==
    \/ \E c \in CallIds, userId \in {"alice", "bob"}, content \in EnrichContents,
          fault \in BOOLEAN :
          createPost(c, "alice", userId, content, fault)
    \/ EnrichStep(BOOLEAN)

SpecEnrich == Init /\ [][NextEnrich]_vars

NextRace ==
    \/ \E c \in CallIds, userId \in {"alice", "bob"}, content \in RaceContents :
          createPost(c, userId, userId, content, FALSE)
    \/ EnrichStep({FALSE})

SpecRace == Init /\ [][NextRace]_vars

\* SpecLink: alice's posts with two hashtags and two links, every request of
\* linkHashtags and linkUrls failing or not.
\* "#a #b http://x http://y"
TwoTagsTwoUrls ==
    <<"#", "a", " ", "#", "b", " ", "h", "t", "t", "p", ":", "/", "/", "x", " ",
      "h", "t", "t", "p", ":", "/", "/", "y">>

NextLink ==
    \/ \E c \in CallIds : createPost(c, "alice", "alice", TwoTagsTwoUrls, FALSE)
    \/ \E c \in CallIds, k \in 1..2, fault \in BOOLEAN : getOrCreateHashtag_select(c, k, fault)
    \/ \E c \in CallIds, k \in 1..2, fault \in BOOLEAN : getOrCreateHashtag_insert(c, k, fault)
    \/ \E c \in CallIds, fault \in BOOLEAN : linkHashtags_upsert(c, fault)
    \/ \E c \in CallIds, fault \in BOOLEAN : linkUrls_select(c, fault)
    \/ \E c \in CallIds, fault \in BOOLEAN : linkUrls_insert(c, fault)
    \/ \E c \in CallIds, fault \in BOOLEAN : linkUrls_upsert(c, fault)

SpecLink == Init /\ [][NextLink]_vars

(***************************************************************************)
(* SpecPost: one Post component of the signed-in viewer at a time, while   *)
(* posts are created and hard-deleted and every user, the viewer in        *)
(* another session included, likes and unlikes through the library.        *)
(***************************************************************************)
Likers == Viewers \cup {"bob"}

NextPost ==
    \/ createPost(1, "bob", "bob", <<"h", "i">>, FALSE)
    \/ \E postId \in PostIds : deletePost("bob", postId, FALSE)
    \/ \E u \in Likers, postId \in PostIds : likePost(u, u, postId, FALSE)
    \/ \E u \in Likers, postId \in PostIds : unlikePost(u, u, postId, FALSE)
    \/ \E viewer \in Viewers, postId \in PostIds, loaded \in BOOLEAN :
          Post_mount(viewer, postId, loaded)
    \/ Post_unmount
    \/ handleLike_click
    \/ \E fault \in BOOLEAN : handleLike_settle(fault)

SpecPost == Init /\ [][NextPost]_vars

(***************************************************************************)
(* SpecToggle: the like button of a Post component and the follow button   *)
(* of a ProfilePage, with a transport failure possible at each request and *)
(* the viewer also calling the library from another session.               *)
(***************************************************************************)
NextToggle ==
    \/ createPost(1, "bob", "bob", <<"h", "i">>, FALSE)
    \/ \E viewer \in Viewers, postId \in PostIds, loaded \in BOOLEAN :
          Post_mount(viewer, postId, loaded)
    \/ handleLike_click
    \/ \E fault \in BOOLEAN : handleLike_settle(fault)
    \/ \E viewer \in Viewers, profileId \in Users, fault \in BOOLEAN :
          ProfilePage_fetchProfile(viewer, profileId, fault)
    \/ handleFollow_click
    \/ \E fault \in BOOLEAN : handleFollow_settle(fault)
    \/ \E viewer \in Viewers, postId \in PostIds : likePost(viewer, viewer, postId, FALSE)
    \/ \E viewer \in Viewers, b \in Users : followUser(viewer, viewer, b, FALSE)
    \/ \E viewer \in Viewers, b \in Users : unfollowUser(viewer, viewer, b, FALSE)

SpecToggle == Init /\ [][NextToggle]_vars

(***************************************************************************)
(* SpecMention: createPost calls whose text mentions users, some of them   *)
(* twice or in another case, some unknown.                                 *)
(***************************************************************************)
\* "@bob @Bob @zed", "@al_d @bob", "@zed"
MentionContents ==
    {<<"@", "b", "o", "b", " ", "@", "B", "o", "b", " ", "@", "z", "e", "d">>,
     <<"@", "a", "l", "_", "d", " ", "@", "b", "o", "b">>,
     <<"@", "z", "e", "d">>}

NextMention ==
    \/ \E c \in CallIds, userId \in Users, content \in MentionContents :
          createPost(c, userId, userId, content, FALSE)
    \/ \E c \in CallIds, fault \in BOOLEAN : insertMentions_select(c, fault)
    \/ \E c \in CallIds, fault \in BOOLEAN : insertMentions_insert(c, fault)

SpecMention == Init /\ [][NextMention]_vars

\* SpecHandle: posts that mention carol, whose stored handle is "Carol", and
\* bob, whose stored handle is lowercase; no request fails.
\* "@Carol", "@carol @bob", "@Bob"
HandleContents ==
    {<<"@", "C", "a", "r", "o", "l">>,
     <<"@", "c", "a", "r", "o", "l", " ", "@", "b", "o", "b">>,
     <<"@", "B", "o", "b">>}

NextHandle ==
    \/ \E c \in CallIds, userId \in {"alice", "bob"}, content \in HandleContents :
          createPost(c, userId, userId, content, FALSE)
    \/ \E c \in CallIds : insertMentions_select(c, FALSE)
    \/ \E c \in CallIds : insertMentions_insert(c, FALSE)

SpecHandle == Init /\ [][NextHandle]_vars

(***************************************************************************)
(* SpecCascade: posts with a hashtag, a mention and a link are created,    *)
(* enriched, liked and hard-deleted, in every interleaving.                *)
(***************************************************************************)
NextCascade ==
    \/ \E c \in CallIds : createPost(c, "bob", "bob", RichContent, FALSE)
    \/ EnrichStep({FALSE})
    \/ \E postId \in PostIds : likePost("alice", "alice", postId, FALSE)
    \/ \E actor \in {"alice", "bob"}, postId \in PostIds : deletePost(actor, postId, FALSE)

SpecCascade == Init /\ [][NextCascade]_vars

\* Deletion by every actor: the two library calls with any actor and any
\* adminId, and the Post component's delete button, over posts of all three
\* users and a store that may already hold a moderated row.
NextModerate ==
    \/ Tick
    \/ \E actor \in Users : createPost(1, actor, actor, <<"h", "i">>, FALSE)
    \/ \E actor \in Users, postId \in PostIds, fault \in BOOLEAN :
          deletePost(actor, postId, fault)
    \/ \E actor \in Users, postId \in PostIds, adminId \in Users, fault \in BOOLEAN :
          softDeletePost(actor, postId, adminId, fault)
    \/ \E viewer \in Users, postId \in PostIds : Post_mount(viewer, postId, TRUE)
    \/ Post_unmount
    \/ handleDelete_click
    \/ \E fault \in BOOLEAN : handleDelete_settle(fault)
    \/ \E userId \in Users : getUserPosts(userId, NoCursor, PageLimit, FALSE)

SpecModerate == InitModerated /\ [][NextModerate]_vars

\* The two pages' lists: alice's home feed and bob's profile over posts of
\* alice and bob, with follows, hard deletes and failing reads; each page
\* starts a fetch when it has none in flight.
NextPaging ==
    \/ Tick
    \/ \E actor \in {"alice", "bob"} : createPost(1, actor, actor, <<"h", "i">>, FALSE)
    \/ \E postId \in PostIds : deletePost("bob", postId, FALSE)
    \/ followUser("alice", "alice", "bob", FALSE)
    \/ HomePage_mount("alice")
    \/ \E fault \in BOOLEAN : HomePage_fetchPosts_follows(1, fault)
    \/ \E fault \in BOOLEAN : HomePage_fetchPosts_posts(1, fault)
    \/ HomePage_fetchPosts_likeCounts(1, FALSE)
    \/ HomePage_fetchPosts_userLikes(1, FALSE)
    \/ HomePage_fetchPosts_likes(1)
    \/ homePage.fetches = <<>> /\ HomePage_handleLoadMore
    \/ homePage.fetches = <<>> /\ HomePage_handlePostCreated
    \/ \E fault \in BOOLEAN : ProfilePage_fetchProfile("alice", "bob", fault)
    \/ \E fault \in BOOLEAN : ProfilePage_fetchPosts_posts(fault)
    \/ ProfilePage_fetchPosts_likeCounts(FALSE)
    \/ ProfilePage_fetchPosts_userLikes(FALSE)
    \/ ProfilePage_fetchPosts_likes
    \/ ProfilePage_handleLoadMore

SpecPaging == Init /\ [][NextPaging]_vars

\* The texts given to the extraction functions: up to MaxTokens pieces, with
\* the same hashtag and handle in two cases, sigils without a word, a
\* word without a sigil, and both URL schemes.
MaxTokens == 4
MaxRuns == 2

Tokens ==
    {<<"#", "a">>, <<"#", "A">>, <<"@", "a", "_">>, <<"@", "A", "_">>,
     <<"#">>, <<"@">>, <<"b">>, <<" ">>,
     <<"h", "t", "t", "p", ":", "/", "/", "x">>,
     <<"h", "t", "t", "p", "s", ":", "/", "/", "X">>}

RECURSIVE Texts(_)
Texts(n) ==
    IF n = 0 THEN {<<>>}
    ELSE Texts(n - 1) \cup {t \o text : t \in Tokens, text \in Texts(n - 1)}

ParseContents == Texts(MaxTokens)

InitParse ==
    /\ nextPostId = 1
    /\ posts = {}
    /\ now = 1
    /\ follows = EmptyBag
    /\ likes = EmptyBag
    /\ hashtags = {}
    /\ post_hashtags = EmptyBag
    /\ mentions = EmptyBag
    /\ link_previews = {}
    /\ post_links = EmptyBag
    /\ calls = [c \in CallIds |-> IdleCall]
    /\ feed = IdleFeed
    /\ ret = Settle(Null, NoError)
    /\ postComp = NoPostComp
    /\ profilePage = NoProfilePage
    /\ homePage = NoHomePage
    /\ annotator \in {[NoAnnotator EXCEPT !.content = c] : c \in ParseContents}
    /\ form = NoForm

\* parseHashtags(content), and the tags linkHashtags makes of it
parseHashtags_run ==
    /\ Len(annotator.parseHashtags) < MaxRuns
    /\ annotator' = [annotator EXCEPT
          !.parseHashtags = Append(@, parseHashtags(annotator.content)),
          !.tags = Distinct(parseHashtags(annotator.content))]
    /\ UNCHANGED <<form, now, nextPostId, store, calls, feed, ret, ui>>

\* parseMentions(content), and the handles insertMentions makes of it
parseMentions_run ==
    /\ Len(annotator.parseMentions) < MaxRuns
    /\ annotator' = [annotator EXCEPT
          !.parseMentions = Append(@, parseMentions(annotator.content)),
          !.handles = Distinct(parseMentions(annotator.content))]
    /\ UNCHANGED <<form, now, nextPostId, store, calls, feed, ret, ui>>

\* parseUrls(content), and the urls linkUrls makes of it
parseUrls_run ==
    /\ Len(annotator.parseUrls) < MaxRuns
    /\ annotator' = [annotator EXCEPT
          !.parseUrls = Append(@, parseUrls(annotator.content)),
          !.urls = Distinct(parseUrls(annotator.content))]
    /\ UNCHANGED <<form, now, nextPostId, store, calls, feed, ret, ui>>

NextParse ==
    \/ parseHashtags_run
    \/ parseMentions_run
    \/ parseUrls_run

SpecParse == InitParse /\ [][NextParse]_vars

\* Posting from the form on alice's home page: drafts with and without
\* annotations, a request that fails in transport or is refused, and the
\* enrichment of the post when it was stored.
SubmitContents == {RichContent, <<"h", "i">>, <<" ">>}

NextSubmit ==
    \/ CreatePost_mount("alice")
    \/ \E content \in SubmitContents, imageFile \in BOOLEAN :
          form.pc = "idle" /\ CreatePost_input(content, imageFile)
    \/ \E c \in CallIds : handleSubmit_click(c)
    \/ \E signedIn \in BOOLEAN, fault \in BOOLEAN : handleSubmit_createPost(signedIn, fault)
    \/ handleSubmit_settle
    \/ EnrichStep({FALSE})
    \/ HomePage_mount("alice")
    \/ form.pc = "idle" /\ HomePage_fetchPosts_follows(1, FALSE)
    \/ form.pc = "idle" /\ HomePage_fetchPosts_posts(1, FALSE)
    \/ form.pc = "idle" /\ HomePage_fetchPosts_likeCounts(1, FALSE)
    \/ form.pc = "idle" /\ HomePage_fetchPosts_userLikes(1, FALSE)
    \/ form.pc = "idle" /\ HomePage_fetchPosts_likes(1)

SpecSubmit == Init /\ [][NextSubmit]_vars

\* A store after the seed script: one post more than a page holds, by alice,
\* with distinct creation times before the clock's first tick.  Their ids are
\* apart from the ids of the posts created later.
OldestSeed == MaxPosts + 1
NewestSeed == MaxPosts + PageLimit + 1

SeededPosts ==
    {[id |-> k, user_id |-> "alice", content |-> <<"h", "i">>,
      is_deleted |-> FALSE, deleted_by |-> Null, deleted_at |-> Null,
      created_at |-> k - NewestSeed - 1]
        : k \in OldestSeed..NewestSeed}

InitSeeded ==
    /\ posts = SeededPosts
    /\ nextPostId = 1
    /\ InitRest

\* no fetchPosts of either page is between its posts query and setLikesMap
LikeReadsIdle ==
    /\ \A i \in DOMAIN homePage.fetches : homePage.fetches[i].pc # "likes"
    /\ profilePage.fetchPosts.pc # "likes"

\* The likes maps of alice's home page and of her profile page, over the
\* seeded posts, with likes and unlikes by alice and bob between the fetches
\* (none while a fetch reads the likes) and like reads that fail.
LikedPosts == {OldestSeed, NewestSeed}

NextLikes ==
    \/ \E userId \in {"alice", "bob"}, postId \in LikedPosts :
          LikeReadsIdle /\ likePost(userId, userId, postId, FALSE)
    \/ \E postId \in LikedPosts :
          LikeReadsIdle /\ unlikePost("alice", "alice", postId, FALSE)
    \/ HomePage_mount("alice")
    \/ HomePage_fetchPosts_follows(1, FALSE)
    \/ HomePage_fetchPosts_posts(1, FALSE)
    \/ \E fault \in BOOLEAN : HomePage_fetchPosts_likeCounts(1, fault)
    \/ \E fault \in BOOLEAN : HomePage_fetchPosts_userLikes(1, fault)
    \/ HomePage_fetchPosts_likes(1)
    \/ homePage.fetches = <<>> /\ HomePage_handleLoadMore
    \/ ProfilePage_fetchProfile("alice", "alice", FALSE)
    \/ ProfilePage_fetchPosts_posts(FALSE)
    \/ \E fault \in BOOLEAN : ProfilePage_fetchPosts_likeCounts(fault)
    \/ \E fault \in BOOLEAN : ProfilePage_fetchPosts_userLikes(fault)
    \/ ProfilePage_fetchPosts_likes
    \/ ProfilePage_handleLoadMore

SpecLikes == InitSeeded /\ [][NextLikes]_vars

\* alice's home page over the seeded posts, the store changed by her own
\* actions on the page only: she posts once from the form (the page
\* refreshes), deletes posts that are displayed, and loads more; up to
\* MaxFetches fetchPosts calls are in flight and their responses arrive in
\* any order (of the two like reads of one call the count comes first).
NextRefresh ==
    \/ HomePage_mount("alice")
    \/ \E i \in 1..MaxFetches : HomePage_fetchPosts_follows(i, FALSE)
    \/ \E i \in 1..MaxFetches : HomePage_fetchPosts_posts(i, FALSE)
    \/ \E i \in 1..MaxFetches : HomePage_fetchPosts_likeCounts(i, FALSE)
    \/ \E i \in 1..MaxFetches :
          /\ i \in DOMAIN homePage.fetches
          /\ homePage.fetches[i].likeCounts.pc # "pending"
          /\ HomePage_fetchPosts_userLikes(i, FALSE)
    \/ \E i \in 1..MaxFetches : HomePage_fetchPosts_likes(i)
    \/ HomePage_handleLoadMore
    \/ homePage.profile # Null /\ ~homePage.loading /\ CreatePost_mount("alice")
    \/ nextPostId = 1 /\ form.pc = "idle" /\ CreatePost_input(<<"h", "i">>, FALSE)
    \/ handleSubmit_click(1)
    \/ handleSubmit_createPost(TRUE, FALSE)
    \/ handleSubmit_settle
    \/ \E postId \in RenderedIds(homePage) : Post_mount("alice", postId, TRUE)
    \/ handleDelete_click
    \/ handleDelete_settle(FALSE)

SpecRefresh == InitSeeded /\ [][NextRefresh]_vars

\* The stores a reader may page through: one post more than a page holds,
\* by alice and bob, created at any of the clock's ticks (several may share
\* one: created_at is the insert's now()), the first of them flagged by a
\* moderator or not.
StoredIds == 1..(PageLimit + 1)

StoredPost(k, userId, createdAt, flagged) ==
    [id |-> k, user_id |-> userId, content |-> <<"h", "i">>,
     is_deleted |-> flagged,
     deleted_by |-> IF flagged THEN "alice" ELSE Null,
     deleted_at |-> IF flagged THEN MaxTime ELSE Null,
     created_at |-> createdAt]

FixedStores ==
    {{StoredPost(k, author[k], at[k], flagged /\ k = 1) : k \in StoredIds} :
        author \in [StoredIds -> {"alice", "bob"}],
        at \in [StoredIds -> 1..MaxTime],
        flagged \in BOOLEAN}

InitFixed ==
    /\ posts \in FixedStores
    /\ nextPostId = PageLimit + 2
    /\ InitRest

\* alice pages through her home feed and through her profile with 'Load
\* More'; the store does not change once a page is open (she may follow bob
\* before), and no request fails.
NextScroll ==
    \/ /\ homePage.profile = Null /\ profilePage.profile = Null
       /\ followUser("alice", "alice", "bob", FALSE)
    \/ HomePage_mount("alice")
    \/ HomePage_fetchPosts_follows(1, FALSE)
    \/ HomePage_fetchPosts_posts(1, FALSE)
    \/ HomePage_fetchPosts_likeCounts(1, FALSE)
    \/ HomePage_fetchPosts_userLikes(1, FALSE)
    \/ HomePage_fetchPosts_likes(1)
    \/ HomePage_handleLoadMore
    \/ ProfilePage_fetchProfile("alice", "alice", FALSE)
    \/ ProfilePage_fetchPosts_posts(FALSE)
    \/ ProfilePage_fetchPosts_likeCounts(FALSE)
    \/ ProfilePage_fetchPosts_userLikes(FALSE)
    \/ ProfilePage_fetchPosts_likes
    \/ ProfilePage_handleLoadMore

SpecScroll == InitFixed /\ [][NextScroll]_vars

\* alice clicks 'Load More' on her home page and on her profile whenever the
\* button lets her, over a fixed store; the follows read and the posts query
\* may fail.
NextMore ==
    \/ HomePage_mount("alice")
    \/ \E i \in 1..MaxFetches, fault \in BOOLEAN : HomePage_fetchPosts_follows(i, fault)
    \/ \E i \in 1..MaxFetches, fault \in BOOLEAN : HomePage_fetchPosts_posts(i, fault)
    \/ \E i \in 1..MaxFetches : HomePage_fetchPosts_likeCounts(i, FALSE)
    \/ \E i \in 1..MaxFetches : HomePage_fetchPosts_userLikes(i, FALSE)
    \/ \E i \in 1..MaxFetches : HomePage_fetchPosts_likes(i)
    \/ HomePage_handleLoadMore
    \/ ProfilePage_fetchProfile("alice", "alice", FALSE)
    \/ \E fault \in BOOLEAN : ProfilePage_fetchPosts_posts(fault)
    \/ ProfilePage_fetchPosts_likeCounts(FALSE)
    \/ ProfilePage_fetchPosts_userLikes(FALSE)
    \/ ProfilePage_fetchPosts_likes
    \/ ProfilePage_handleLoadMore

\* Every request is answered, the user clicks a button that stays enabled,
\* and a posts query that is sent again and again is answered without a
\* failure at some time.
FairMore ==
    /\ WF_vars(HomePage_handleLoadMore)
    /\ WF_vars(\E i \in 1..MaxFetches : HomePage_fetchPosts_follows(i, FALSE))
    /\ SF_vars(\E i \in 1..MaxFetches : HomePage_fetchPosts_posts(i, FALSE))
    /\ WF_vars(\E i \in 1..MaxFetches : HomePage_fetchPosts_likeCounts(i, FALSE))
    /\ WF_vars(\E i \in 1..MaxFetches : HomePage_fetchPosts_userLikes(i, FALSE))
    /\ WF_vars(\E i \in 1..MaxFetches : HomePage_fetchPosts_likes(i))
    /\ WF_vars(ProfilePage_handleLoadMore)
    /\ SF_vars(ProfilePage_fetchPosts_posts(FALSE))
    /\ WF_vars(ProfilePage_fetchPosts_likeCounts(FALSE))
    /\ WF_vars(ProfilePage_fetchPosts_userLikes(FALSE))
    /\ WF_vars(ProfilePage_fetchPosts_likes)

SpecMore == InitFixed /\ [][NextMore]_vars /\ FairMore

(***************************************************************************)
(* Claims about the feed reads, checked under Spec.                        *)
(***************************************************************************)
PageIds(page) == {page[i].id : i \in DOMAIN page}

\* every page a feed read can resolve with in the current store: the library
\* reads with every author set, cursor and limit, the pages with PageLimit
AllPages ==
    UNION {FeedQuery(ids, cursor, limit) \cup HomePageQuery(ids, cursor)
              : ids \in SUBSET Users, cursor \in Cursors, limit \in Limits}
    \cup UNION {ProfilePageQuery(u, cursor) : u \in Users, cursor \in Cursors}

NoDeletedPost(page) == \A r \in posts : r.is_deleted => r.id \notin PageIds(page)

\* C1: after any sequence of operations no page of the home feed or of the
\* profile feed holds a post whose deleted flag is set when the query runs,
\* whoever its author is and whatever the author set; and the page a read
\* returns is such a page.
C1_NoDeletedPostInFeed ==
    /\ [](\A page \in AllPages : NoDeletedPost(page))
    /\ [][(feed'.pc = "returned" /\ feed' # feed) => NoDeletedPost(feed'.data)]_vars

\* a feed read returned a page of an author who also has a soft-deleted post
C1_Witness ==
    /\ feed.pc = "returned"
    /\ Len(feed.data) > 0
    /\ \E r \in posts : r.is_deleted /\ r.user_id = feed.data[1].user_id
    /\ NoDeletedPost(feed.data)

Matching(ids, cursor) ==
    {r \in posts : r.user_id \in ids /\ ~r.is_deleted /\ r.created_at < cursor}

Min(a, b) == IF a < b THEN a ELSE b

PageStrictlyOlder(page, ids, cursor, limit) ==
    /\ \A i \in DOMAIN page : page[i].created_at < cursor
    /\ \A i, j \in DOMAIN page : i < j => page[i].created_at >= page[j].created_at
    /\ \A i, j \in DOMAIN page : i # j => page[i].id # page[j].id
    /\ Len(page) = Min(limit, Cardinality(Matching(ids, cursor)))
    /\ PageIds(page) \subseteq {r.id : r \in Matching(ids, cursor)}
    /\ \A r \in Matching(ids, cursor) :
          r.id \notin PageIds(page) => \A i \in DOMAIN page : r.created_at <= page[i].created_at

Followees(u) == {b \in Users : BagIn(<<u, b>>, follows)}

\* C3: the author set of the home feed is the viewer and the users the viewer
\* follows, the viewer alone when the follows read fails; a page holds only posts
\* of that set, and a page that is not full holds every post of the set that is
\* not deleted and is older than the cursor, the viewer's own among them.
C3_AuthorSetIncludesViewer ==
    /\ [][\A u \in Users, fault \in BOOLEAN :
            getHomeFeed_follows(u, fault) =>
                /\ feed'.pc = "query"
                /\ feed'.followingIds = {u} \cup (IF fault THEN {} ELSE Followees(u))]_vars
    /\ [][\A cursor \in Cursors, limit \in Limits :
            getHomeFeed_posts(cursor, limit, FALSE) =>
                /\ \A i \in DOMAIN feed'.data : feed'.data[i].user_id \in feed.followingIds
                /\ Len(feed'.data) < limit =>
                      \A r \in posts :
                          (r.user_id \in feed.followingIds /\ ~r.is_deleted
                           /\ (cursor # NoCursor => r.created_at < cursor))
                              => r.id \in PageIds(feed'.data)]_vars

\* the viewer follows no one: the home feed returned the viewer's post and left
\* out the post of another author
C3_Witness ==
    /\ feed.fn = "getHomeFeed" /\ feed.pc = "returned"
    /\ follows = EmptyBag
    /\ Len(feed.data) = 1
    /\ \E r \in posts : ~r.is_deleted /\ r.user_id # feed.data[1].user_id
                         /\ r.created_at = feed.data[1].created_at

(***************************************************************************)
(* Claims about follow and unfollow, checked under SpecFollow.             *)
(***************************************************************************)
\* C8: follow(a, a) fails with an error and leaves the follows relation as it
\* was, so no follow row has follower = followee.
C8_FollowIrreflexive ==
    /\ [](\A r \in BagToSet(follows) : r[1] # r[2])
    /\ [][\A actor \in Users, a \in Users, fault \in BOOLEAN :
            followUser(actor, a, a, fault) =>
                follows' = follows /\ ret'.error # NoError]_vars

\* a user has tried to follow themselves and the store refused the row
C8_Witness ==
    /\ ret = Settle("followUser", CheckViolation)
    /\ follows # EmptyBag

\* C9: unfollow(a, b) when no (a, b) row exists completes without error and
\* leaves the follows relation as it was; a second unfollow changes nothing.
C9_UnfollowAbsentIsNoOp ==
    /\ [][\A actor \in Users, a \in Users, b \in Users :
            (unfollowUser(actor, a, b, FALSE) /\ ~BagIn(<<a, b>>, follows)) =>
                follows' = follows /\ ret'.error = NoError]_vars
    /\ [][\A actor \in Users, a \in Users, b \in Users :
            unfollowUser(actor, a, b, FALSE) =>
                FollowsDelete(follows', actor, a, b) = follows']_vars

\* every pair the store admits is followed and the call that settled last is an
\* unfollow that returned: it named a row that does not exist or is not the caller's
C9_Witness ==
    /\ ret = Settle("unfollowUser", NoError)
    /\ \A a \in Users, b \in Users : a # b => BagIn(<<a, b>>, follows)

\* C10: at most one follow row exists per (follower, followee); follow(a, b)
\* when the pair exists fails, with the duplicate error when the store gets to
\* the row, and leaves the follows relation as it was.
C10_FollowPairUnique ==
    /\ [](\A r \in BagToSet(follows) : CopiesIn(r, follows) = 1)
    /\ [][\A actor \in Users, a \in Users, b \in Users, fault \in BOOLEAN :
            (followUser(actor, a, b, fault) /\ BagIn(<<a, b>>, follows)) =>
                /\ follows' = follows
                /\ ret'.error # NoError
                /\ (~fault /\ actor = a) => ret'.error = UniqueViolation]_vars

\* a user has followed someone they already follow and got the duplicate error
C10_Witness ==
    /\ ret = Settle("followUser", UniqueViolation)
    /\ follows # EmptyBag

(***************************************************************************)
(* Claims about createPost and its enrichment, checked under SpecEnrich    *)
(* and SpecRace.                                                           *)
(***************************************************************************)
\* C4: once the posts insert succeeded createPost returns that post without an
\* error, whatever way each of the three enrichment sub-operations ends: a call
\* that is enriching can only go on enriching or return its post, a call throws
\* only when the insert failed, and no enrichment step touches the posts table.
C4_CreatePostIgnoresEnrichment ==
    /\ [](\A c \in CallIds :
            /\ calls[c].pc = "returned" =>
                  calls[c].error = NoError /\ calls[c].post \in posts
            /\ calls[c].pc = "thrown" =>
                  calls[c].error # NoError /\ calls[c].post = NoRow)
    /\ [][\A c \in CallIds : calls[c].pc = "enriching" =>
            /\ calls'[c].pc \in {"enriching", "returned"}
            /\ calls'[c].post = calls[c].post
            /\ calls'[c].error = NoError]_vars
    /\ [][EnrichStep(BOOLEAN) => posts' = posts]_vars

\* createPost returned a post although linkHashtags rejected and neither a
\* mention nor a link of the post's text was stored
C4_Witness ==
    \E c \in CallIds :
        /\ calls[c].pc = "returned"
        /\ calls[c].post \in posts
        /\ calls[c].lh.pc = "rejected"
        /\ Len(calls[c].im.handles) > 0 /\ Len(calls[c].lu.urls) > 0
        /\ \A r \in BagToSet(mentions) \cup BagToSet(post_links) \cup BagToSet(post_hashtags) :
              r[1] # calls[c].post.id

CallDone(c) ==
    /\ calls[c].pc = "returned"
    /\ \A k \in DOMAIN calls[c].lh.goc : calls[c].lh.goc[k].pc \in {"done", "thrown"}

\* C5: when post creations first-use the same hashtag concurrently and no
\* request fails in transport, exactly one row exists for the tag and every
\* post whose creation has finished is linked to the row of each of its tags.
C5_ConcurrentHashtagBothLinked ==
    /\ \A h1 \in hashtags, h2 \in hashtags : h1.tag = h2.tag => h1 = h2
    /\ \A c \in CallIds : CallDone(c) =>
          \A k \in DOMAIN calls[c].lh.tags :
              \E h \in hashtags :
                  /\ h.tag = toLowerCase(calls[c].lh.tags[k])
                  /\ BagIn(<<calls[c].post.id, h.id>>, post_hashtags)

\* C6: when post creations first-use the same URL concurrently and no request
\* fails in transport, exactly one link_previews row exists for the URL and
\* every post whose creation has finished is linked to the row of each of its URLs.
C6_ConcurrentUrlBothLinked ==
    /\ \A l1 \in link_previews, l2 \in link_previews : l1.url = l2.url => l1 = l2
    /\ \A c \in CallIds : calls[c].pc = "returned" =>
          \A k \in DOMAIN calls[c].lu.urls :
              \E l \in link_previews :
                  /\ l.url = calls[c].lu.urls[k]
                  /\ BagIn(<<calls[c].post.id, l.id>>, post_links)

(***************************************************************************)
(* SpecJunction: the upsert requests of linkHashtags and linkUrls, sent on *)
(* their own and as often as one likes against a store that two finished  *)
(* createPost calls left behind.                                           *)
(***************************************************************************)
JunctionRequests ==
    {<<r>> : r \in PostIds \X (1..2)}
    \cup {<<r1, r2>> : r1 \in PostIds \X (1..2), r2 \in PostIds \X (1..2)}

\* the answer of the store to an upsert into post_hashtags or post_links
JunctionUpsertError(actor, rows, fault) ==
    IF fault THEN TransportError
    ELSE IF \E k \in DOMAIN rows : ~PostAuthoredBy(actor, rows[k][1]) THEN RlsViolation
    ELSE NoError

post_hashtags_upsert(actor, rows, fault) ==
    LET error == JunctionUpsertError(actor, rows, fault)
    IN /\ post_hashtags' = IF error # NoError THEN post_hashtags
                           ELSE UpsertIgnoreDuplicates(post_hashtags, rows)
       /\ ret' = Settle("post_hashtags.upsert", error)
       /\ UNCHANGED <<annotator, form, ui, now, nextPostId, posts, follows, likes, hashtags, mentions,
                      link_previews, post_links, calls, feed>>

post_links_upsert(actor, rows, fault) ==
    LET error == JunctionUpsertError(actor, rows, fault)
    IN /\ post_links' = IF error # NoError THEN post_links
                        ELSE UpsertIgnoreDuplicates(post_links, rows)
       /\ ret' = Settle("post_links.upsert", error)
       /\ UNCHANGED <<annotator, form, ui, now, nextPostId, posts, follows, likes, hashtags, post_hashtags,
                      mentions, link_previews, calls, feed>>

\* two posts by alice, two hashtags and two link previews, nothing linked yet
InitJunction ==
    /\ now = 1
    /\ nextPostId = MaxPosts + 1
    /\ posts = {[NewPost("alice", <<"h", "i">>) EXCEPT !.id = i] : i \in PostIds}
    /\ follows = EmptyBag
    /\ likes = EmptyBag
    /\ hashtags = {[id |-> 1, tag |-> <<"a">>], [id |-> 2, tag |-> <<"b">>]}
    /\ post_hashtags = EmptyBag
    /\ mentions = EmptyBag
    /\ link_previews = {[id |-> 1, url |-> <<"h", "t", "t", "p", ":", "/", "/", "x">>],
                        [id |-> 2, url |-> <<"h", "t", "t", "p", ":", "/", "/", "y">>]}
    /\ post_links = EmptyBag
    /\ calls = [c \in CallIds |-> IdleCall]
    /\ feed = IdleFeed
    /\ ret = Settle(Null, NoError)
    /\ postComp = NoPostComp
    /\ profilePage = NoProfilePage
    /\ homePage = NoHomePage
    /\ annotator = NoAnnotator
    /\ form = NoForm

NextJunction ==
    \/ \E actor \in {"alice", "bob"}, rows \in JunctionRequests, fault \in BOOLEAN :
          post_hashtags_upsert(actor, rows, fault)
    \/ \E actor \in {"alice", "bob"}, rows \in JunctionRequests, fault \in BOOLEAN :
          post_links_upsert(actor, rows, fault)

SpecJunction == InitJunction /\ [][NextJunction]_vars

UpsertTwiceIsOnce(bag) ==
    \A rows \in JunctionRequests :
        LET once == UpsertIgnoreDuplicates(bag, rows)
        IN /\ UpsertIgnoreDuplicates(once, rows) = once
           /\ \A r \in BagToSet(once) : CopiesIn(r, once) = 1
           /\ \A k \in DOMAIN rows : BagIn(rows[k], once)

AllPresent(rows, bag) == \A k \in DOMAIN rows : BagIn(rows[k], bag)

\* C7: inserting a post-hashtag or a post-link pair that is already there, in
\* the same request or in a later one, is a no-op: each pair has one row, an
\* upsert of pairs that all exist leaves the table as it is and is not an error,
\* and sending a request a second time changes nothing.
C7_JunctionInsertIdempotent ==
    /\ [](/\ \A r \in BagToSet(post_hashtags) : CopiesIn(r, post_hashtags) = 1
          /\ \A r \in BagToSet(post_links) : CopiesIn(r, post_links) = 1
          /\ UpsertTwiceIsOnce(post_hashtags)
          /\ UpsertTwiceIsOnce(post_links))
    /\ [][\A actor \in {"alice", "bob"}, rows \in JunctionRequests, fault \in BOOLEAN :
            /\ (post_hashtags_upsert(actor, rows, fault) /\ AllPresent(rows, post_hashtags)) =>
                  /\ post_hashtags' = post_hashtags
                  /\ (~fault /\ actor = "alice") => ret'.error = NoError
            /\ (post_links_upsert(actor, rows, fault) /\ AllPresent(rows, post_links)) =>
                  /\ post_links' = post_links
                  /\ (~fault /\ actor = "alice") => ret'.error = NoError]_vars

\* every pair is linked in both tables, once, and the request that settled last
\* is an upsert the store accepted
C7_Witness ==
    /\ ret = Settle("post_links.upsert", NoError)
    /\ \A r \in PostIds \X (1..2) :
          CopiesIn(r, post_hashtags) = 1 /\ CopiesIn(r, post_links) = 1

(***************************************************************************)
(* Claims about the Post component, checked under SpecPost.                *)
(***************************************************************************)
\* the last two handleLike calls both had their request accepted
ToggledTwice ==
    /\ postComp.mounted /\ ~postComp.liking
    /\ Len(postComp.history) = 2
    /\ postComp.history[1].error = NoError
    /\ postComp.history[2].error = NoError

DisplayAsBefore ==
    /\ postComp.isLiked = postComp.history[1].isLiked
    /\ postComp.likeCount = postComp.history[1].likeCount

RowAsBefore == postComp.history[2].rowAfter = postComp.history[1].rowBefore

\* C11 as stated: two toggles whose requests both succeed put back the stored
\* like row of (viewer, post) and the displayed count and liked state.
C11_ToggleTwiceRestoresAll == ToggledTwice => (DisplayAsBefore /\ RowAsBefore)

\* C11, amended: two toggles whose requests both succeed put back the displayed
\* count and liked state; they put back the stored like row of (viewer, post)
\* when the displayed liked state agreed with the store as the first request ran.
C11_ToggleTwiceRestores ==
    ToggledTwice =>
        /\ DisplayAsBefore
        /\ (postComp.history[1].isLiked = postComp.history[1].rowBefore) => RowAsBefore

\* like then unlike, both accepted, from a display that agreed with the store
C11_Witness ==
    /\ ToggledTwice
    /\ ~postComp.history[1].isLiked /\ ~postComp.history[1].rowBefore
    /\ postComp.history[1].rowAfter
    /\ postComp.history[2].isLiked /\ ~postComp.history[2].rowAfter

LikeDisplay(comp) == [isLiked |-> comp.isLiked, likeCount |-> comp.likeCount]

FollowDisplay(page) ==
    [isFollowingUser |-> page.isFollowingUser, followerCount |-> page.followerCount]

\* C12: a like or follow toggle shows at once, with the store untouched and the
\* in-progress flag set; while the request is pending the handler holds the
\* values shown before the toggle; when the request fails the boolean and the
\* count go back to exactly those values, when it succeeds the toggled values
\* stay; liking / followLoading is cleared either way.
C12_OptimisticToggleReverts ==
    /\ [][handleLike_click =>
            /\ postComp'.isLiked = ~postComp.isLiked
            /\ postComp'.likeCount =
                  postComp.likeCount + (IF postComp.isLiked THEN -1 ELSE 1)
            /\ postComp'.handleLike = LikeDisplay(postComp)
            /\ postComp'.liking /\ likes' = likes]_vars
    /\ [][handleFollow_click =>
            /\ profilePage'.isFollowingUser = ~profilePage.isFollowingUser
            /\ profilePage'.followerCount =
                  profilePage.followerCount + (IF profilePage.isFollowingUser THEN -1 ELSE 1)
            /\ profilePage'.handleFollow = FollowDisplay(profilePage)
            /\ profilePage'.followLoading /\ follows' = follows]_vars
    /\ [][\A fault \in BOOLEAN : handleLike_settle(fault) =>
            /\ ~postComp'.liking
            /\ LikeDisplay(postComp') = IF ret'.error # NoError THEN postComp.handleLike
                                        ELSE LikeDisplay(postComp)
            /\ ret'.error # NoError => likes' = likes]_vars
    /\ [][\A fault \in BOOLEAN : handleFollow_settle(fault) =>
            /\ ~profilePage'.followLoading
            /\ FollowDisplay(profilePage') =
                  IF ret'.error # NoError THEN profilePage.handleFollow
                  ELSE FollowDisplay(profilePage)
            /\ ret'.error # NoError => follows' = follows]_vars
    /\ [](/\ postComp.liking => OptimisticLike(postComp.handleLike.isLiked,
                                               postComp.handleLike.likeCount)
                                   = LikeDisplay(postComp)
          /\ profilePage.followLoading =>
                OptimisticFollow(profilePage.handleFollow.isFollowingUser,
                                 profilePage.handleFollow.followerCount)
                   = FollowDisplay(profilePage))

\* a like the store refused as a duplicate and a follow that failed have both
\* been reverted: the flags are clear and the displays are the ones before
C12_Witness ==
    /\ postComp.mounted /\ ~postComp.liking
    /\ Len(postComp.history) > 0
    /\ postComp.history[Len(postComp.history)].error = UniqueViolation
    /\ LikeDisplay(postComp) =
          [isLiked |-> FALSE,
           likeCount |-> postComp.history[Len(postComp.history)].likeCount]
    /\ profilePage.profile # Null /\ ~profilePage.followLoading
    /\ ret \in {Settle("followUser", UniqueViolation), Settle("unfollowUser", TransportError)}
    /\ FollowDisplay(profilePage) = profilePage.handleFollow

(***************************************************************************)
(* More claims about enrichment, checked under SpecEnrich.                 *)
(***************************************************************************)
HashtagStep(c) ==
    \E fault \in BOOLEAN :
        \/ \E k \in 1..2 : getOrCreateHashtag_select(c, k, fault)
        \/ \E k \in 1..2 : getOrCreateHashtag_insert(c, k, fault)
        \/ linkHashtags_upsert(c, fault)

MentionStep(c) ==
    \E fault \in BOOLEAN : insertMentions_select(c, fault) \/ insertMentions_insert(c, fault)

UrlStep(c) ==
    \E fault \in BOOLEAN :
        linkUrls_select(c, fault) \/ linkUrls_insert(c, fault) \/ linkUrls_upsert(c, fault)

\* C13: the three enrichment sub-operations are isolated.  A step of one, failed
\* or not, leaves the locals and the tables of the two others as they were; a
\* sub-operation that has a request to send can send it whatever state the two
\* others are in; and a request that reaches the store writes its rows whatever
\* became of the two others.
C13_EnrichmentIsolated ==
    /\ [][\A c \in CallIds :
            /\ HashtagStep(c) =>
                  /\ calls'[c].im = calls[c].im /\ calls'[c].lu = calls[c].lu
                  /\ mentions' = mentions /\ link_previews' = link_previews
                  /\ post_links' = post_links
            /\ MentionStep(c) =>
                  /\ calls'[c].lh = calls[c].lh /\ calls'[c].lu = calls[c].lu
                  /\ hashtags' = hashtags /\ post_hashtags' = post_hashtags
                  /\ link_previews' = link_previews /\ post_links' = post_links
            /\ UrlStep(c) =>
                  /\ calls'[c].lh = calls[c].lh /\ calls'[c].im = calls[c].im
                  /\ hashtags' = hashtags /\ post_hashtags' = post_hashtags
                  /\ mentions' = mentions]_vars
    /\ [](\A c \in CallIds :
            /\ calls[c].im.pc = "select" => ENABLED insertMentions_select(c, FALSE)
            /\ calls[c].im.pc = "insert" => ENABLED insertMentions_insert(c, FALSE)
            /\ calls[c].lu.pc = "select" => ENABLED linkUrls_select(c, FALSE)
            /\ calls[c].lu.pc = "insert" => ENABLED linkUrls_insert(c, FALSE)
            /\ calls[c].lu.pc = "upsert" => ENABLED linkUrls_upsert(c, FALSE)
            /\ calls[c].lh.pc = "upsert" => ENABLED linkHashtags_upsert(c, FALSE)
            /\ \A k \in DOMAIN calls[c].lh.goc :
                  /\ calls[c].lh.goc[k].pc = "select" =>
                        ENABLED getOrCreateHashtag_select(c, k, FALSE)
                  /\ calls[c].lh.goc[k].pc = "insert" =>
                        ENABLED getOrCreateHashtag_insert(c, k, FALSE))
    /\ [][\A c \in CallIds :
            /\ insertMentions_insert(c, FALSE) =>
                  \A u \in calls[c].im.profiles : BagIn(<<calls[c].post.id, u>>, mentions')
            /\ linkUrls_upsert(c, FALSE) =>
                  \A k \in DOMAIN calls[c].lu.previewIds :
                      BagIn(<<calls[c].post.id, calls[c].lu.previewIds[k]>>, post_links')
            /\ linkHashtags_upsert(c, FALSE) =>
                  \A k \in DOMAIN calls[c].lh.goc :
                      BagIn(<<calls[c].post.id, calls[c].lh.goc[k].row.id>>, post_hashtags')
          ]_vars

\* hashtag linking rejected, and the mention and the link of the same post were
\* written all the same
C13_Witness ==
    \E c \in CallIds :
        /\ calls[c].pc = "returned"
        /\ calls[c].lh.pc = "rejected"
        /\ \E r \in BagToSet(mentions) : r[1] = calls[c].post.id
        /\ \E r \in BagToSet(post_links) : r[1] = calls[c].post.id
        /\ \A r \in BagToSet(post_hashtags) : r[1] # calls[c].post.id

\* C14: enrichment is fire-and-forget relative to the caller of createPost:
\* the call hands the persisted post back without waiting, so no call is ever
\* held between its posts insert and its return by sub-operations that are
\* still pending.
C14_CreatePostNeverWaits ==
    \A c \in CallIds :
        ~(/\ calls[c].pc = "enriching"
          /\ calls[c].post \in posts
          /\ \E pc \in {calls[c].lh.pc, calls[c].im.pc, calls[c].lu.pc} : pc \notin Settled)

(***************************************************************************)
(* Claims about mention resolution, checked under SpecMention.             *)
(***************************************************************************)
\* the users whose handle is one of the handles extracted from a text
Mentioned(content) == {u \in Users : Handle(u) \in Range(parseMentions(content))}

MentionedIn(postId) == {r[2] : r \in {q \in BagToSet(mentions) : q[1] = postId}}

\* C15: mention resolution inserts one mention row per (post, user) for each
\* distinct extracted handle that resolves to a profile, however often the text
\* names it; handles that resolve to no profile insert nothing and raise no
\* error; no pair ever has two rows.
C15_OneMentionPerResolvedHandle ==
    /\ [](/\ \A r \in BagToSet(mentions) : CopiesIn(r, mentions) = 1
          /\ \A c \in CallIds : calls[c].im.pc # "rejected" /\ calls[c].pc # "thrown")
    /\ [][\A c \in CallIds :
            /\ insertMentions_insert(c, FALSE) =>
                  /\ MentionedIn(calls[c].post.id)' = Mentioned(calls[c].post.content)
                  /\ MentionedIn(calls[c].post.id) = {}
                  /\ \A r \in BagToSet(mentions) : BagIn(r, mentions')
                  /\ calls'[c].im.pc = "resolved"
            /\ (insertMentions_select(c, FALSE) /\ Mentioned(calls[c].post.content) = {}) =>
                  /\ calls'[c].im.pc = "resolved"
                  /\ mentions' = mentions
            /\ (insertMentions_select(c, FALSE) /\ Mentioned(calls[c].post.content) # {}) =>
                  calls'[c].im.pc = "insert"]_vars

\* the text named bob twice, in two cases, and an unknown handle: the post has
\* the one row of bob
C15_Witness ==
    \E c \in CallIds :
        /\ calls[c].pc = "returned"
        /\ Len(parseMentions(calls[c].post.content)) = 3
        /\ MentionedIn(calls[c].post.id) = {"bob"}
        /\ CopiesIn(<<calls[c].post.id, "bob">>, mentions) = 1

(***************************************************************************)
(* Claims about deletion, checked under SpecCascade and SpecModerate.      *)
(***************************************************************************)
\* C16: a hard delete removes the post for good and cascades: every like,
\* mention, post-hashtag and post-link row references a post that exists, a
\* deleted id never comes back, and the delete leaves the hashtags and
\* link_previews rows untouched.
C16_HardDeleteCascades ==
    /\ [](/\ \A r \in BagToSet(likes) : PostExists(r[2])
          /\ \A r \in BagToSet(mentions) : PostExists(r[1])
          /\ \A r \in BagToSet(post_hashtags) : PostExists(r[1])
          /\ \A r \in BagToSet(post_links) : PostExists(r[1]))
    /\ [][\A id \in PostIds : (id < nextPostId /\ ~PostExists(id)) => ~PostExists(id)']_vars
    /\ [][\A actor \in Users, postId \in PostIds :
            deletePost(actor, postId, FALSE) =>
                /\ hashtags' = hashtags /\ link_previews' = link_previews
                /\ \A r \in posts : r.id # postId => r \in posts'
                /\ \A r \in BagToSet(post_hashtags) : r[1] # postId => BagIn(r, post_hashtags')
                /\ \A r \in BagToSet(post_links) : r[1] # postId => BagIn(r, post_links')]_vars

\* two posts shared the hashtag and the link preview; one was hard-deleted: its
\* rows are gone, the shared rows and the other post's rows are there
C16_Witness ==
    /\ ret = Settle("deletePost", NoError)
    /\ Cardinality(posts) = 1 /\ nextPostId = 3
    /\ \A c \in CallIds : calls[c].pc = "returned"
    /\ hashtags # {} /\ link_previews # {}
    /\ \E r \in posts :
          /\ BagToSet(post_hashtags) = {<<r.id, 1>>}
          /\ BagToSet(post_links) = {<<r.id, 1>>}
          /\ BagToSet(likes) = {<<"alice", r.id>>}
          /\ MentionedIn(r.id) = {"bob"}

AuthorOf(postId) == (CHOOSE r \in posts : r.id = postId).user_id

MayModerate(actor, postId) == actor = AuthorOf(postId) \/ is_admin(actor)

PostRemoved(postId) == PostExists(postId) /\ \A r \in posts' : r.id # postId

FlagSet(postId) ==
    /\ \E r \in posts : r.id = postId /\ ~r.is_deleted
    /\ \E r \in posts' : r.id = postId /\ r.is_deleted

RowUnchanged(postId) == \A r \in posts : r.id = postId => r \in posts'

Moderators == {u \in Users : is_admin(u)}

Visible(postId) == \E r \in posts : r.id = postId /\ ~r.is_deleted

C18_FlagNeverCleared ==
    /\ [][\A r \in posts : r.is_deleted =>
            \E q \in posts' : q.id = r.id /\ q.is_deleted]_vars
    /\ [](feed.pc = "returned" => NoDeletedPost(feed.data))

(***************************************************************************)
(* Claims about the pages' lists, checked under SpecPaging.                *)
(***************************************************************************)
\* the step of a page's fetchPosts that receives the query's data
FetchReturned(before, after) ==
    before.fetchPosts.pc = "posts" /\ after.fetchPosts.pc = "likes"

\* the number of posts that step received
Fetched(before, after) ==
    IF before.fetchPosts.cursor # NoCursor
    THEN Len(after.posts) - Len(before.posts)
    ELSE Len(after.posts)

ListIds(page) == {page.posts[i].id : i \in DOMAIN page.posts}

Eligible(authorIds) == {r.id : r \in {q \in posts : q.user_id \in authorIds /\ ~q.is_deleted}}

\* the home page's list with its i-th fetch in flight
HomeAsPage(hp, i) == [posts |-> hp.posts, hasMore |-> hp.hasMore, fetchPosts |-> hp.fetches[i]]

HasMoreHeuristic(before, after, authorIds) ==
    FetchReturned(before, after) =>
       /\ Fetched(before, after) <= PageLimit
       /\ Fetched(before, after) < PageLimit => ~after.hasMore
       /\ Fetched(before, after) = PageLimit => after.hasMore = before.hasMore
       /\ ( /\ Fetched(before, after) = PageLimit
            /\ ListIds(after) = Eligible(authorIds)
            /\ Cardinality(Eligible(authorIds)) % PageLimit = 0 ) => after.hasMore

\* C19: on both pages a fetch that returns fewer posts than the page limit
\* sets hasMore to false and a fetch that returns exactly the limit leaves
\* hasMore as it was; when the eligible posts are an exact multiple of the
\* limit and the fetch has loaded the last of them, hasMore is still true.
C19_HasMoreHeuristic ==
    /\ [][\A i \in DOMAIN homePage.fetches :
            Len(homePage'.fetches) = Len(homePage.fetches) =>
               HasMoreHeuristic(HomeAsPage(homePage, i), HomeAsPage(homePage', i),
                                homePage.fetches[i].followingIds)]_vars
    /\ [][HasMoreHeuristic(profilePage, profilePage', {profilePage.profile})]_vars

\* every eligible post of the profile is in the list, their number is the page
\* limit, the fetch is over, and hasMore is still true
C19_Witness ==
    /\ profilePage.fetchPosts.pc = "idle"
    /\ Len(profilePage.posts) = PageLimit
    /\ ListIds(profilePage) = Eligible({profilePage.profile})
    /\ profilePage.hasMore

(***************************************************************************)
(* Claims about the extraction functions, checked under SpecParse.         *)
(***************************************************************************)
\* the places of a text where a sigil is followed by a word character
SigilStarts(s, sigil) ==
    {i \in 1..(Len(s) - 1) : s[i] = sigil /\ IsWordChar(s[i + 1])}

\* the places where a URL begins: a scheme followed by a character that is
\* not whitespace, with no such place before it in the same run of
\* characters that are not whitespace
UrlCandidate(s, i) ==
    /\ SchemeLenAt(s, i) > 0
    /\ i + SchemeLenAt(s, i) <= Len(s)
    /\ s[i + SchemeLenAt(s, i)] \notin Whitespace

UrlStarts(s) ==
    {i \in 1..Len(s) :
        /\ UrlCandidate(s, i)
        /\ \A j \in 1..(i - 1) :
              UrlCandidate(s, j) => \E w \in j..(i - 1) : s[w] \in Whitespace}

\* the k-th smallest element of a set of places
Nth(places, k) == CHOOSE i \in places : Cardinality({j \in places : j < i}) = k - 1

\* the last place of the run from i on whose characters all satisfy Ok
RunLast(s, i, Ok(_)) ==
    CHOOSE e \in i..Len(s) :
        /\ \A j \in i..e : Ok(s[j])
        /\ e = Len(s) \/ ~Ok(s[e + 1])

NotSpace(ch) == ch \notin Whitespace

NoUpper(word) == \A n \in DOMAIN word : word[n] \notin Range(UpperLetters)

SameLetters(word, other) ==
    /\ Len(word) = Len(other)
    /\ \A n \in DOMAIN word : LowerChar(word[n]) = LowerChar(other[n])

\* result lists, lowercased, the word after each sigil in order of occurrence
WordsInOrder(result, s, sigil) ==
    /\ Len(result) = Cardinality(SigilStarts(s, sigil))
    /\ \A k \in DOMAIN result :
          LET i == Nth(SigilStarts(s, sigil), k)
          IN /\ SameLetters(result[k], SubSeq(s, i + 1, RunLast(s, i + 1, IsWordChar)))
             /\ NoUpper(result[k])

UrlsInOrder(result, s) ==
    /\ Len(result) = Cardinality(UrlStarts(s))
    /\ \A k \in DOMAIN result :
          LET i == Nth(UrlStarts(s), k)
          IN result[k] = SubSeq(s, i, RunLast(s, i, NotSpace))

\* a list without two equal elements that holds exactly the elements of xs
DistinctOf(set, xs) ==
    /\ \A i, j \in DOMAIN set : i # j => set[i] # set[j]
    /\ Range(set) = Range(xs)

AllSame(runs) == \A i, j \in DOMAIN runs : runs[i] = runs[j]

C21_HashtagsUniqueLowercaseAppendOnly ==
    /\ [](\A h, g \in hashtags : h.tag = g.tag => h = g)
    /\ [](\A h \in hashtags : NoUpper(h.tag))
    /\ [][hashtags \subseteq hashtags']_vars

\* two calls looked up the same tag, both missed it, one inserted the row and
\* the other's insert met the unique key and threw
C21_Witness ==
    \E c, d \in CallIds, k, l \in 1..2 :
        /\ c # d
        /\ k \in DOMAIN calls[c].lh.goc /\ l \in DOMAIN calls[d].lh.goc
        /\ toLowerCase(calls[c].lh.tags[k]) = toLowerCase(calls[d].lh.tags[l])
        /\ calls[c].lh.goc[k].pc = "done"
        /\ calls[d].lh.goc[l].pc = "thrown"
        /\ \E h \in hashtags : h.tag = toLowerCase(calls[c].lh.tags[k])

(***************************************************************************)
(* Claims about the CreatePost form, checked under SpecSubmit.             *)
(***************************************************************************)
\* an enrichment step of call c can be taken
EnrichmentPending(c) ==
    \/ \E k \in 1..2 : ENABLED getOrCreateHashtag_select(c, k, FALSE)
    \/ \E k \in 1..2 : ENABLED getOrCreateHashtag_insert(c, k, FALSE)
    \/ ENABLED linkHashtags_upsert(c, FALSE)
    \/ ENABLED insertMentions_select(c, FALSE)
    \/ ENABLED insertMentions_insert(c, FALSE)
    \/ ENABLED linkUrls_select(c, FALSE)
    \/ ENABLED linkUrls_insert(c, FALSE)
    \/ ENABLED linkUrls_upsert(c, FALSE)

\* C22: when the post insert fails, createPost throws the store's error and
\* writes nothing, none of its enrichment sub-operations runs, and the form
\* keeps its draft text and image and does not call onPostCreated.
C22_FailedCreateChangesNothing ==
    /\ [][\A signedIn \in BOOLEAN, fault \in BOOLEAN :
            ( /\ handleSubmit_createPost(signedIn, fault)
              /\ PostsInsertError(IF signedIn THEN form.profile ELSE Null, form.profile,
                                  form.handleSubmit.content, fault) # NoError ) =>
               /\ calls'[form.call].pc = "thrown"
               /\ calls'[form.call].error =
                     PostsInsertError(IF signedIn THEN form.profile ELSE Null, form.profile,
                                      form.handleSubmit.content, fault)
               /\ store' = store]_vars
    /\ [](\A c \in CallIds : calls[c].pc = "thrown" => ~EnrichmentPending(c))
    /\ [][(handleSubmit_settle /\ calls[form.call].pc = "thrown") =>
             /\ form'.content = form.content
             /\ form'.imageFile = form.imageFile
             /\ ~form'.notified
             /\ ~form'.loading
             /\ homePage' = homePage]_vars

\* a draft with a hashtag, a mention, a URL and an image was submitted, the
\* insert failed, and the form still holds the draft
C22_Witness ==
    /\ form.pc = "idle"
    /\ form.call \in CallIds
    /\ calls[form.call].pc = "thrown"
    /\ form.content = RichContent
    /\ form.handleSubmit.content = RichContent
    /\ form.imageFile
    /\ ~form.notified
    /\ ~form.loading
    /\ hashtags = {}

\* the page's fetchPosts ends with setLikesMap on this step
HomeLikesMapSet(i) ==
    /\ homePage.fetches[i].pc = "likes"
    /\ homePage'.fetches = Remove(homePage.fetches, i)

ProfileLikesMapSet ==
    /\ profilePage.fetchPosts.pc = "likes"
    /\ profilePage'.fetchPosts.pc = "idle"

\* the two likes queries of a fetch are not answered before its posts query is
LikeReadsAfterPosts(f) ==
    f.pc \in {"idle", "follows", "posts"} =>
        f.likeCounts.pc = "pending" /\ f.userLikes.pc = "pending"

\* C23: when no like or unlike happens while a page's fetch reads the likes,
\* the likes-map entry the fetch sets for each post of its page has the
\* number of like rows of the post as count and isLiked true exactly when
\* the row (viewer, post) exists; the two like queries come after the posts
\* query.
C23_LikesMapOfPage ==
    /\ [](/\ \A i \in DOMAIN homePage.fetches : LikeReadsAfterPosts(homePage.fetches[i])
          /\ LikeReadsAfterPosts(profilePage.fetchPosts))
    /\ [][\A i \in DOMAIN homePage.fetches : HomeLikesMapSet(i) =>
            \A id \in homePage.fetches[i].postIds :
                /\ id \in DOMAIN homePage'.likesMap
                /\ homePage'.likesMap[id] = LikesMapEntry(homePage.profile, id)]_vars
    /\ [][ProfileLikesMapSet =>
            \A id \in profilePage.fetchPosts.postIds :
                /\ id \in DOMAIN profilePage'.likesMap
                /\ profilePage'.likesMap[id] =
                      LikesMapEntry(profilePage.currentProfile, id)]_vars

\* the same for fetches whose two likes queries were answered
C23_LikesMapOfAnsweredReads ==
    /\ [](/\ \A i \in DOMAIN homePage.fetches : LikeReadsAfterPosts(homePage.fetches[i])
          /\ LikeReadsAfterPosts(profilePage.fetchPosts))
    /\ [][\A i \in DOMAIN homePage.fetches :
            (/\ HomeLikesMapSet(i)
             /\ homePage.fetches[i].likeCounts.pc = "ok"
             /\ homePage.fetches[i].userLikes.pc = "ok") =>
            \A id \in homePage.fetches[i].postIds :
                /\ id \in DOMAIN homePage'.likesMap
                /\ homePage'.likesMap[id] = LikesMapEntry(homePage.profile, id)]_vars
    /\ [][(/\ ProfileLikesMapSet
           /\ profilePage.fetchPosts.likeCounts.pc = "ok"
           /\ profilePage.fetchPosts.userLikes.pc = "ok") =>
            \A id \in profilePage.fetchPosts.postIds :
                /\ id \in DOMAIN profilePage'.likesMap
                /\ profilePage'.likesMap[id] =
                      LikesMapEntry(profilePage.currentProfile, id)]_vars

\* a load-more page of the home feed got its entries from answered reads: a
\* post liked by both users, the viewer among them
C23_Witness ==
    /\ homePage.fetches = <<>>
    /\ Len(homePage.posts) = PageLimit + 1
    /\ OldestSeed \in DOMAIN homePage.likesMap
    /\ homePage.likesMap[OldestSeed] = [count |-> 2, isLiked |-> TRUE]
    /\ LikesMapEntry("alice", OldestSeed) = [count |-> 2, isLiked |-> TRUE]
    /\ homePage.likesMap[NewestSeed].count = 0

\* every rendered post with a likes-map entry displays that entry
DisplaysLikesMap(page) ==
    \A id \in RenderedIds(page) \cap DOMAIN page.likesMap :
        page.cells[id] = [likeCount |-> page.likesMap[id].count,
                          isLiked |-> page.likesMap[id].isLiked]

\* C24: once no fetch of the page is in flight (its like queries have
\* completed), every post displayed in the home feed and in the profile feed,
\* posts brought by load-more included, shows the like count and the liked
\* state that the likes map holds for it.
C24_DisplayedLikesFollowLikesMap ==
    /\ homePage.fetches = <<>> => DisplaysLikesMap(homePage)
    /\ profilePage.fetchPosts.pc = "idle" => DisplaysLikesMap(profilePage)

NoDuplicateIds(list) ==
    \A i, j \in DOMAIN list : i # j => list[i].id # list[j].id

NewestFirst(list) ==
    \A i, j \in DOMAIN list : i < j => list[i].created_at >= list[j].created_at

\* C25: on the home page, however the responses of a load-more in flight
\* and of a refresh after a new post interleave, and also when posts were
\* deleted between the fetches, the displayed list never holds a post id
\* twice and is always ordered by created_at descending.
C25_ListDistinctAndNewestFirst ==
    /\ NoDuplicateIds(homePage.posts)
    /\ NewestFirst(homePage.posts)

\* the same, apart: the ids, and the order
C25_ListDistinct == NoDuplicateIds(homePage.posts)

C25_ListNewestFirst == NewestFirst(homePage.posts)

\* C26: on the home page, whenever no fetch is in flight and hasMore is
\* false, every non-deleted post of the viewer's author set (the viewer and
\* the users the viewer follows) that is in the store is in the displayed
\* list, the store being changed only by the viewer's own actions on the
\* page, for every interleaving of load-more and refresh responses.  A
\* submission of the form or a delete that has not settled yet counts as
\* in flight with the fetch it leads to.
C26_ListCompleteWhenNoMore ==
    (/\ homePage.profile # Null
     /\ homePage.fetches = <<>>
     /\ form.pc = "idle"
     /\ ~postComp.deleting
     /\ ~homePage.hasMore) =>
        Eligible(FollowingIds(homePage.profile, FALSE)) \subseteq ListIds(homePage)

\* the page has paged to the end: nothing in flight, no more pages
HomePagedThrough ==
    /\ homePage.profile # Null
    /\ ~homePage.loading
    /\ homePage.fetches = <<>>
    /\ ~homePage.hasMore

ProfilePagedThrough ==
    /\ profilePage.profile # Null
    /\ ~profilePage.loading
    /\ profilePage.fetchPosts.pc = "idle"
    /\ ~profilePage.hasMore

\* no two posts of the author set that the feed may return share created_at
DistinctTimes(authorIds) ==
    \A p, q \in posts :
        (/\ p.id \in Eligible(authorIds) /\ q.id \in Eligible(authorIds)
         /\ p.id # q.id) => p.created_at # q.created_at

\* C27: with a fixed store, paging from the first page with the created_at
\* of the last item received as the next cursor returns every non-deleted
\* post of the author set exactly once, also when several posts share one
\* creation timestamp across a page boundary.
C27_PagingReturnsEachPostOnce ==
    /\ HomePagedThrough =>
          /\ ListIds(homePage) = Eligible(FollowingIds(homePage.profile, FALSE))
          /\ NoDuplicateIds(homePage.posts)
    /\ ProfilePagedThrough =>
          /\ ListIds(profilePage) = Eligible({profilePage.profile})
          /\ NoDuplicateIds(profilePage.posts)

\* the same for stores whose eligible posts have distinct timestamps
C27_PagingOverDistinctTimes ==
    /\ (HomePagedThrough /\ DistinctTimes(FollowingIds(homePage.profile, FALSE))) =>
          /\ ListIds(homePage) = Eligible(FollowingIds(homePage.profile, FALSE))
          /\ NoDuplicateIds(homePage.posts)
    /\ (ProfilePagedThrough /\ DistinctTimes({profilePage.profile})) =>
          /\ ListIds(profilePage) = Eligible({profilePage.profile})
          /\ NoDuplicateIds(profilePage.posts)

\* the users whose stored handle the text names after an @, as written
NamedIn(content) ==
    LET matches == MatchSigilWord(content, 1, "@")
    IN {u \in Users : \E k \in DOMAIN matches : Tail(matches[k]) = Handle(u)}

\* C28: a mention whose handle names an existing profile always results in
\* a mention row, for every handle the profiles table accepts, stored
\* handles with uppercase letters included: once createPost has returned,
\* the post has a row for every user whose handle its text names.
C28_NamedProfileIsMentioned ==
    \A c \in CallIds :
        calls[c].pc = "returned" =>
            NamedIn(calls[c].post.content) \subseteq MentionedIn(calls[c].post.id)

\* the same for the users whose stored handle has no uppercase letter
C28_LowercaseHandleIsMentioned ==
    \A c \in CallIds :
        calls[c].pc = "returned" =>
            \A u \in NamedIn(calls[c].post.content) :
                Handle(u) = toLowerCase(Handle(u)) => u \in MentionedIn(calls[c].post.id)

\* the hashtags and the link previews a post is linked to
LinkedTags(postId) == {r[2] : r \in {q \in BagToSet(post_hashtags) : q[1] = postId}}

LinkedPreviews(postId) == {r[2] : r \in {q \in BagToSet(post_links) : q[1] = postId}}

\* the call that created the post
CallOf(postId) == {c \in CallIds : calls[c].pc # "idle" /\ calls[c].post.id = postId}

\* C29: hashtag linking is all-or-nothing per post: post_hashtags rows of
\* a post are written only when get-or-create has succeeded for every
\* distinct tag of its text, and then for all the tags at once; when it
\* failed for a tag the post has no post_hashtags row.  linkUrls goes on
\* after a URL that failed and links the previews of the others.
C29_HashtagLinkingAllOrNothing ==
    /\ [](\A c \in CallIds :
            (calls[c].pc # "idle" /\ \E k \in DOMAIN calls[c].lh.goc :
                                        calls[c].lh.goc[k].pc = "thrown") =>
                LinkedTags(calls[c].post.id) = {})
    /\ [](\A c \in CallIds :
            calls[c].pc # "idle" =>
                Cardinality(LinkedTags(calls[c].post.id)) \in {0, Len(calls[c].lh.tags)})
    /\ [][\A postId \in PostIds :
            LinkedTags(postId)' # LinkedTags(postId) =>
                \E c \in CallOf(postId) :
                    /\ \A k \in DOMAIN calls[c].lh.goc : calls[c].lh.goc[k].pc = "done"
                    /\ LinkedTags(postId) = {}
                    /\ LinkedTags(postId)' =
                          {calls[c].lh.goc[k].row.id : k \in DOMAIN calls[c].lh.goc}]_vars
    /\ [][\A c \in CallIds :
            (calls[c].lu.pc \in {"select", "insert"} /\ calls'[c].lu # calls[c].lu) =>
                /\ calls'[c].lu.pc \in {"select", "insert", "upsert", "resolved"}
                /\ \A k \in DOMAIN calls[c].lu.previewIds :
                      calls'[c].lu.previewIds[k] = calls[c].lu.previewIds[k]
                /\ calls'[c].lu.pc = "resolved" => calls'[c].lu.previewIds = <<>>]_vars
    /\ [][\A c \in CallIds :
            linkUrls_upsert(c, FALSE) =>
                LinkedPreviews(calls[c].post.id)' = Range(calls[c].lu.previewIds)]_vars

\* a call returned: get-or-create failed for one of its two tags and the
\* post has no hashtag, though the other tag's row was created; one of its
\* two URLs failed and the post is linked to the preview of the other
C29_Witness ==
    \E c \in CallIds :
        /\ calls[c].pc = "returned"
        /\ Len(calls[c].lh.tags) = 2
        /\ calls[c].lh.goc[1].pc = "thrown" /\ calls[c].lh.goc[2].pc = "done"
        /\ LinkedTags(calls[c].post.id) = {}
        /\ hashtags # {}
        /\ Len(calls[c].lu.urls) = 2
        /\ Cardinality(LinkedPreviews(calls[c].post.id)) = 1
        /\ \E l \in link_previews :
              l.url = calls[c].lu.urls[2] /\ LinkedPreviews(calls[c].post.id) = {l.id}

\* the fetchPosts calls in flight that 'Load More' started
LoadMoreInFlight ==
    {i \in DOMAIN homePage.fetches : homePage.fetches[i].cursor # NoCursor}

\* C30: with a fixed, finite set of eligible posts and every request
\* succeeding in the end, clicking 'Load More' again and again from a
\* loaded, non-empty first page sets hasMore to false at some time, also
\* when the number of posts is a multiple of the page size; at most one
\* load-more fetch is in flight at any time: loadingMore is set while it is
\* and cleared when it has settled, whether it succeeded or failed.
C30_LoadMoreTerminates ==
    /\ (homePage.profile # Null /\ ~homePage.loading /\ Len(homePage.posts) > 0)
            ~> ~homePage.hasMore
    /\ (profilePage.profile # Null /\ ~profilePage.loading /\ Len(profilePage.posts) > 0)
            ~> ~profilePage.hasMore
    /\ [](/\ Cardinality(LoadMoreInFlight) <= 1
          /\ Len(homePage.fetches) <= 1
          /\ homePage.loadingMore <=> LoadMoreInFlight # {}
          /\ profilePage.loadingMore <=>
                (profilePage.fetchPosts.pc # "idle" /\ profilePage.fetchPosts.cursor # NoCursor)
          /\ (profilePage.profile # Null /\ ~profilePage.loading /\ ~profilePage.loadingMore)
                => profilePage.fetchPosts.pc = "idle")

\* the eligible posts fill one page exactly: the first page left hasMore
\* true, a load-more returned the empty page and hasMore is false
C30_Witness ==
    /\ HomePagedThrough
    /\ Len(homePage.posts) = PageLimit
    /\ ListIds(homePage) = Eligible({"alice"})
    /\ Cardinality(Eligible({"alice"})) = PageLimit

====
